---- MODULE Spec2Model ----
(***************************************************************************)
(* Virtual consumer interview toolkit: the workflow state machine of App   *)
(* (src/unnamed/part_000) and the interview turn loop of ChatInterface     *)
(* (src/unnamed/part_001), with the forms that feed them and the service   *)
(* layer (src/components/PersonaPreview.tsx, lines 283-742).               *)
(*                                                                         *)
(* Execution is single-threaded and callback driven: every action below is *)
(* one synchronous run of a handler or of the continuation of an await,    *)
(* together with the React re-render and the effects that run after it.    *)
(* State updates made in one synchronous run are applied together.         *)
(*                                                                         *)
(* Nullable values are sequences of length at most one: <<>> is null.      *)
(* A text is a sequence of characters; "SP" is a whitespace character.     *)
(***************************************************************************)
EXTENDS Naturals, Sequences, FiniteSets

(* ------------------------------ bounds -------------------------------- *)

\* interviewer messages (manual or moderator) appended to transcripts in one run
MaxTurns == 2
\* times ChatInterface is mounted in one run: once per interview started, and
\* once more per failed summary generation
MaxMounts == 2
\* clarifying questions returned by requirement analysis
MaxQuestions == 2
\* edit operations made in one GuideReview form (SpecGuide)
MaxEdits == 2
\* retries asked of runWithRetry when it is called on its own (SpecRetry)
MaxRetries == 2

(* ------------------------------ values -------------------------------- *)

Null == <<>>

Some(x) == <<x>>

\* AppStep
SETUP == "SETUP"

CLARIFYING == "CLARIFYING"

RESEARCHING == "RESEARCHING"

PREVIEW == "PREVIEW"

GUIDE_INPUT == "GUIDE_INPUT"

GUIDE_REVIEW == "GUIDE_REVIEW"

MODE_SELECTION == "MODE_SELECTION"

INTERVIEW == "INTERVIEW"

SUMMARY == "SUMMARY"

AppStep == {SETUP, CLARIFYING, RESEARCHING, PREVIEW, GUIDE_INPUT, GUIDE_REVIEW,
            MODE_SELECTION, INTERVIEW, SUMMARY}

\* InterviewMode
MANUAL == "MANUAL"

AUTO == "AUTO"

InterviewMode == {MANUAL, AUTO}

\* the error messages of App, in source order
ErrAnalyze == "ErrAnalyze"          \* part_000:53

ErrPersona == "ErrPersona"          \* part_000:71

ErrGuide == "ErrGuide"              \* part_000:107

ErrSession == "ErrSession"          \* part_000:129

ErrSummary == "ErrSummary"          \* part_000:145

(* ------------------------------- texts -------------------------------- *)

IsSpace(c) == c = "SP"

RECURSIVE TrimStart(_)
TrimStart(t) ==
    IF t # <<>> /\ IsSpace(Head(t)) THEN TrimStart(Tail(t)) ELSE t

RECURSIVE TrimEnd(_)
TrimEnd(t) ==
    IF t # <<>> /\ IsSpace(t[Len(t)]) THEN TrimEnd(SubSeq(t, 1, Len(t) - 1)) ELSE t

\* String.prototype.trim
Trim(t) == TrimEnd(TrimStart(t))

\* String.prototype.includes for a one-character needle
Includes(t, c) == \E i \in 1..Len(t) : t[i] = c

\* a || b on strings: the empty string is falsy
OrElse(t, d) == IF t = <<>> THEN d ELSE t

\* texts typed by the user or returned by the backend
Texts == {<<>>, <<"SP">>, <<"w">>, <<"SP", "w">>}

\* the texts the code itself supplies
GreetingPrompt == <<"intro?">>      \* part_001:45

HelloText == <<"hello">>            \* part_001:46

DotsText == <<"...">>               \* part_001:84, part_001:125

NetworkText == <<"netfail">>        \* part_001:129

FallbackGuide == <<<<"f1">>, <<"f2">>, <<"f3">>>>   \* PersonaPreview.tsx:599

IsPrefix(s, t) == Len(s) <= Len(t) /\ SubSeq(t, 1, Len(s)) = s

(* ----------------------- collaborator responses ----------------------- *)

\* ClarifyingQuestion number n, with its options (an option may be empty)
Question(n) ==
    [question |-> n, options |-> IF n % 2 = 1 THEN <<"a", "b">> ELSE <<"c", "">>]

QuestionList(n) == [i \in 1..n |-> Question(i)]

\* what the requirement-analysis backend call ends with, after runWithRetry
AnalysisResponses ==
    {[ok |-> FALSE, needsClarification |-> FALSE, questions |-> <<>>]}
    \cup {[ok |-> TRUE, needsClarification |-> b, questions |-> QuestionList(n)] :
            b \in BOOLEAN, n \in 0..MaxQuestions}

\* analyzeRequirements: the questions, or null (here <<>>: its caller treats
\* null and the empty list alike)
analyzeRequirements(resp) ==
    IF ~resp.ok THEN <<>>
    ELSE IF resp.needsClarification /\ Len(resp.questions) > 0 THEN resp.questions
    ELSE <<>>

\* what generatePersonaProfile resolves to; it rethrows every failure
PersonaResults == {[profile |-> "persona", sources |-> <<"src1">>]}

\* what the guide backend call ends with, after runWithRetry: a failure, or a
\* question list
GuideResponses ==
    {[ok |-> FALSE, questions |-> Null],
     [ok |-> TRUE, questions |-> Some(<< <<"w">>, <<"SP">> >>)]}

\* a guide with an empty and a whitespace-only entry between two questions
BlankedGuide == << <<"w">>, <<>>, <<"SP">>, <<"SP", "w">> >>

\* the same, and the responses in which "questions" is absent, of one entry,
\* or holds blank entries
AllGuideResponses ==
    GuideResponses \cup {[ok |-> TRUE, questions |-> Null],
                         [ok |-> TRUE, questions |-> Some(<< <<"w">> >>)],
                         [ok |-> TRUE, questions |-> Some(BlankedGuide)]}

\* generateDiscussionGuide without its fallback: a failure of the backend call
\* is passed on to the caller
generateDiscussionGuide_Rethrows(resp) ==
    IF ~resp.ok THEN [threw |-> TRUE, guide |-> <<>>]
    ELSE IF resp.questions = Null THEN [threw |-> FALSE, guide |-> <<>>]
    ELSE [threw |-> FALSE, guide |-> resp.questions[1]]

\* generateDiscussionGuide: "threw" tells whether the call throws to its caller.
\* Every failure is caught and answered with the fallback guide.
generateDiscussionGuide(resp) ==
    IF ~resp.ok THEN [threw |-> FALSE, guide |-> FallbackGuide]
    ELSE IF resp.questions = Null THEN [threw |-> FALSE, guide |-> <<>>]
    ELSE [threw |-> FALSE, guide |-> resp.questions[1]]

\* what generateInterviewSummary resolves to: JSON.parse(response.text || "{}")
SummaryResults == {"summary", "emptyObject"}

\* the configurations typed into SetupForm
SetupInputs ==
    {[industry |-> i, targetAudience |-> a, referenceMaterials |-> <<>>] :
        i \in {<<"SP">>, <<"w">>}, a \in {<<>>, <<"w">>}}

(* ------------------------------ state --------------------------------- *)

VARIABLES
    \* App (part_000:14-29)
    step, config, clarificationQuestions, persona, sources, discussionGuide,
    interviewMode, chatSession, chatHistory, summary, error, isLoadingGuide,
    \* the collaborator call an App handler is awaiting: Null or Some(call)
    appCall,
    \* ClarificationForm (PersonaPreview.tsx:127)
    answers,
    \* GuideReview (part_001:319), and the edits made in it
    questions, edits,
    \* ChatInterface (part_001:23-30). retryTrigger is not kept: it is only ever
    \* incremented, to make the moderator effect run again (see ModeratorCooldownEnds)
    messages, isTyping, aiModeratorStatus, hasStartedRef,
    \* the awaits of the mounted ChatInterface: the opening request, the
    \* manual sends, and the moderator turns (a sequence, in start order)
    greetingPending, manualPending, modTurns,
    \* the awaits of unmounted ChatInterface instances. On the channel held by
    \* chatSession: outstanding sendMessage requests, and moderator turns not
    \* yet decided (pacing delay or moderator call). On channels that App has
    \* dropped: the moderator turns not yet decided (their sends reach no one).
    orphanSends, orphanTurns, staleTurns,
    \* bookkeeping: opening requests issued on the channel held by chatSession,
    \* mounts of ChatInterface and interviewer messages appended in this run,
    \* and, from submitInitialConfig until the profile is confirmed, the stages
    \* visited and the persona generations invoked
    openings, mounts, interviewerTurns, stagePath, personaCalls,
    \* whether, in the interview on the channel held by chatSession, the
    \* moderator has answered with the completion sentinel
    sentinelSeen,
    \* a call of runWithRetry on its own: its arguments, and what it ends with
    retryCall, retryResult,
    \* SetupForm: the materials state, the FileReader reads not yet loaded (each
    \* with the materials its handler saw), the clock read by Date.now(), the
    \* number of files and texts supplied so far, and of these the ones that
    \* were put on the list and the ones the user removed
    materials, reads, now, supplied, added, removed

appVars == <<step, config, clarificationQuestions, persona, sources, discussionGuide,
             interviewMode, chatSession, chatHistory, summary, error, isLoadingGuide,
             appCall>>

formVars == <<answers, questions, edits>>

chatVars == <<messages, isTyping, aiModeratorStatus, hasStartedRef,
              greetingPending, manualPending, modTurns>>

orphanVars == <<orphanSends, orphanTurns, staleTurns>>

retryVars == <<retryCall, retryResult>>

setupVars == <<materials, reads, now, supplied, added, removed>>

bookVars == <<openings, mounts, interviewerTurns, stagePath, personaCalls,
              sentinelSeen, retryVars, setupVars>>

vars == <<appVars, formVars, chatVars, orphanVars, bookVars>>

\* App and the forms as they are constructed
Constructed ==
    /\ step = SETUP
    /\ config = Null
    /\ clarificationQuestions = <<>>
    /\ persona = Null
    /\ sources = <<>>
    /\ discussionGuide = <<>>
    /\ interviewMode = MANUAL
    /\ chatSession = 0
    /\ chatHistory = <<>>
    /\ summary = Null
    /\ error = Null
    /\ isLoadingGuide = FALSE
    /\ appCall = Null
    /\ answers = <<>>
    /\ questions = <<>>
    /\ edits = 0
    /\ messages = <<>>
    /\ isTyping = FALSE
    /\ aiModeratorStatus = "idle"
    /\ hasStartedRef = FALSE
    /\ greetingPending = FALSE
    /\ manualPending = 0
    /\ modTurns = <<>>
    /\ orphanSends = 0
    /\ orphanTurns = 0
    /\ staleTurns = 0
    /\ openings = 0
    /\ mounts = 0
    /\ interviewerTurns = 0
    /\ stagePath = <<SETUP>>
    /\ personaCalls = 0
    /\ sentinelSeen = FALSE
    /\ materials = <<>>
    /\ reads = <<>>
    /\ now = 0
    /\ supplied = 0
    /\ added = {}
    /\ removed = {}

Init == Constructed /\ retryCall = Null /\ retryResult = Null

(* ------------------------ App: persona workflow ----------------------- *)

Call(op, caller, clarifications, msgs) ==
    [op |-> op, caller |-> caller, clarifications |-> clarifications, messages |-> msgs]

Awaiting(op) == appCall # Null /\ appCall[1].op = op

\* a stage change, recorded while the persona workflow is being followed
Visit(s) == stagePath' = IF stagePath = <<>> THEN <<>> ELSE Append(stagePath, s)

\* part_000:32-38, up to the await of analyzeRequirements
handleInitialSubmit(inputConfig) ==
    /\ step = SETUP
    /\ config' = Some(inputConfig)
    /\ step' = RESEARCHING
    /\ error' = Null
    /\ appCall' = Some(Call("analyzeRequirements", "handleInitialSubmit", <<>>, <<>>))
    /\ stagePath' = <<step, RESEARCHING>>
    /\ personaCalls' = 0
    /\ UNCHANGED <<clarificationQuestions, persona, sources, discussionGuide,
                   interviewMode, chatSession, chatHistory, summary, isLoadingGuide>>
    /\ UNCHANGED <<formVars, chatVars, orphanVars, openings, mounts, interviewerTurns,
                   sentinelSeen, retryVars, setupVars>>

\* SetupForm.handleSubmit (part_002:16-21)
SetupFormSubmit(input) ==
    IF Trim(input.industry) # <<>> /\ Trim(input.targetAudience) # <<>>
    THEN handleInitialSubmit(input)
    ELSE step = SETUP /\ UNCHANGED vars

\* AnalyzeReturns with a failure of analyzeRequirements reaching the catch of
\* handleInitialSubmit (part_000:51-55)
AnalyzeReturns_FailureSurfaced(resp) ==
    /\ Awaiting("analyzeRequirements")
    /\ LET qs == analyzeRequirements(resp) IN
       IF ~resp.ok
       THEN /\ error' = Some(ErrAnalyze)
            /\ step' = SETUP
            /\ Visit(SETUP)
            /\ appCall' = Null
            /\ UNCHANGED <<clarificationQuestions, answers, personaCalls>>
       ELSE IF Len(qs) > 0
       THEN /\ clarificationQuestions' = qs
            /\ step' = CLARIFYING
            /\ Visit(CLARIFYING)
            /\ appCall' = Null
            /\ answers' = [i \in 1..Len(qs) |-> ""]
            /\ UNCHANGED <<personaCalls, error>>
       ELSE /\ appCall' = Some(Call("generatePersonaProfile", "handleInitialSubmit",
                                    <<>>, <<>>))
            /\ personaCalls' = personaCalls + 1
            /\ UNCHANGED <<clarificationQuestions, step, stagePath, answers, error>>
    /\ UNCHANGED <<config, persona, sources, discussionGuide, interviewMode, chatSession,
                   chatHistory, summary, isLoadingGuide>>
    /\ UNCHANGED <<questions, edits, chatVars, orphanVars, openings, mounts,
                   interviewerTurns, sentinelSeen, retryVars, setupVars>>

\* AnalyzeReturns without the test of questions.length: an empty list of
\* questions is shown in ClarificationForm
AnalyzeReturns_NoLengthTest(resp) ==
    /\ Awaiting("analyzeRequirements")
    /\ clarificationQuestions' = analyzeRequirements(resp)
    /\ step' = CLARIFYING
    /\ Visit(CLARIFYING)
    /\ appCall' = Null
    /\ answers' = [i \in 1..Len(analyzeRequirements(resp)) |-> ""]
    /\ UNCHANGED <<config, persona, sources, discussionGuide, interviewMode, chatSession,
                   chatHistory, summary, error, isLoadingGuide>>
    /\ UNCHANGED <<questions, edits, chatVars, orphanVars, openings, mounts,
                   interviewerTurns, sentinelSeen, retryVars, setupVars, personaCalls>>

\* part_000:38-50: analyzeRequirements has returned
AnalyzeReturns(resp) ==
    /\ Awaiting("analyzeRequirements")
    /\ LET qs == analyzeRequirements(resp) IN
       IF Len(qs) > 0
       THEN /\ clarificationQuestions' = qs
            /\ step' = CLARIFYING
            /\ Visit(CLARIFYING)
            /\ appCall' = Null
            /\ answers' = [i \in 1..Len(qs) |-> ""]
            /\ UNCHANGED personaCalls
       ELSE /\ appCall' = Some(Call("generatePersonaProfile", "handleInitialSubmit",
                                    <<>>, <<>>))
            /\ personaCalls' = personaCalls + 1
            /\ UNCHANGED <<clarificationQuestions, step, stagePath, answers>>
    /\ UNCHANGED <<config, persona, sources, discussionGuide, interviewMode, chatSession,
                   chatHistory, summary, error, isLoadingGuide>>
    /\ UNCHANGED <<questions, edits, chatVars, orphanVars, openings, mounts,
                   interviewerTurns, sentinelSeen, retryVars, setupVars>>

\* ClarificationForm.handleOptionSelect (PersonaPreview.tsx:129-133)
handleOptionSelect(qIndex, option) ==
    /\ step = CLARIFYING
    /\ answers' = [answers EXCEPT ![qIndex] = option]
    /\ UNCHANGED <<appVars, questions, edits, chatVars, orphanVars, bookVars>>

\* isComplete with some in place of every: one answer is enough
isComplete_Some(as) == \E i \in 1..Len(as) : as[i] # ""

\* ClarificationForm.isComplete (PersonaPreview.tsx:135)
isComplete(as) == \A i \in 1..Len(as) : as[i] # ""

\* part_000:59-68, up to the await of generatePersonaProfile
handleClarificationSubmit(as) ==
    /\ config # Null
    /\ step' = RESEARCHING
    /\ Visit(RESEARCHING)
    /\ appCall' = Some(Call("generatePersonaProfile", "handleClarificationSubmit",
                            as, <<>>))
    /\ personaCalls' = personaCalls + 1
    /\ answers' = <<>>
    /\ UNCHANGED <<config, clarificationQuestions, persona, sources, discussionGuide,
                   interviewMode, chatSession, chatHistory, summary, error,
                   isLoadingGuide>>
    /\ UNCHANGED <<questions, edits, chatVars, orphanVars, openings, mounts,
                   interviewerTurns, sentinelSeen, retryVars, setupVars>>

\* the submit button without its isComplete test
ClarificationFormSubmit_Untested ==
    /\ step = CLARIFYING
    /\ handleClarificationSubmit(answers)

\* the submit button of ClarificationForm (PersonaPreview.tsx:171-173)
ClarificationFormSubmit ==
    /\ step = CLARIFYING
    /\ IF isComplete(answers) THEN handleClarificationSubmit(answers) ELSE UNCHANGED vars

\* executePersonaGeneration after its await (part_000:88-90)
PersonaSucceeds(result) ==
    /\ Awaiting("generatePersonaProfile")
    /\ persona' = Some(result.profile)
    /\ sources' = result.sources
    /\ step' = PREVIEW
    /\ Visit(PREVIEW)
    /\ appCall' = Null
    /\ UNCHANGED <<config, clarificationQuestions, discussionGuide, interviewMode,
                   chatSession, chatHistory, summary, error, isLoadingGuide>>
    /\ UNCHANGED <<formVars, chatVars, orphanVars, openings, mounts, interviewerTurns,
                   sentinelSeen, retryVars, setupVars,
                   personaCalls>>

\* the catch that also forgets the configuration
PersonaFails_ConfigDropped ==
    /\ Awaiting("generatePersonaProfile")
    /\ error' = IF appCall[1].caller = "handleInitialSubmit"
                THEN Some(ErrAnalyze) ELSE Some(ErrPersona)
    /\ step' = SETUP
    /\ Visit(SETUP)
    /\ appCall' = Null
    /\ config' = Null
    /\ UNCHANGED <<clarificationQuestions, persona, sources, discussionGuide,
                   interviewMode, chatSession, chatHistory, summary, isLoadingGuide>>
    /\ UNCHANGED <<formVars, chatVars, orphanVars, openings, mounts, interviewerTurns,
                   sentinelSeen, retryVars, setupVars,
                   personaCalls>>

\* generatePersonaProfile throws and no handler catches it: nothing is set
PersonaFails_Uncaught ==
    /\ Awaiting("generatePersonaProfile")
    /\ appCall' = Null
    /\ UNCHANGED <<step, config, clarificationQuestions, persona, sources,
                   discussionGuide, interviewMode, chatSession, chatHistory, summary,
                   error, isLoadingGuide>>
    /\ UNCHANGED <<formVars, chatVars, orphanVars, bookVars>>

\* generatePersonaProfile throws: the catch of the handler that awaits it
\* (part_000:51-55, part_000:69-73)
PersonaFails ==
    /\ Awaiting("generatePersonaProfile")
    /\ error' = IF appCall[1].caller = "handleInitialSubmit"
                THEN Some(ErrAnalyze) ELSE Some(ErrPersona)
    /\ step' = SETUP
    /\ Visit(SETUP)
    /\ appCall' = Null
    /\ UNCHANGED <<config, clarificationQuestions, persona, sources, discussionGuide,
                   interviewMode, chatSession, chatHistory, summary, isLoadingGuide>>
    /\ UNCHANGED <<formVars, chatVars, orphanVars, openings, mounts, interviewerTurns,
                   sentinelSeen, retryVars, setupVars,
                   personaCalls>>

\* handleConfirmProfile naming the wrong stage
handleConfirmProfile_WrongStage ==
    /\ step = PREVIEW /\ persona # Null
    /\ step' = GUIDE_REVIEW
    /\ stagePath' = <<>>
    /\ personaCalls' = 0
    /\ UNCHANGED <<config, clarificationQuestions, persona, sources, discussionGuide,
                   interviewMode, chatSession, chatHistory, summary, error,
                   isLoadingGuide, appCall>>
    /\ UNCHANGED <<formVars, chatVars, orphanVars, openings, mounts, interviewerTurns,
                   sentinelSeen, retryVars, setupVars>>

\* part_000:94-96, from the button of PersonaPreview
handleConfirmProfile ==
    /\ step = PREVIEW /\ persona # Null
    /\ step' = GUIDE_INPUT
    /\ stagePath' = <<>>
    /\ personaCalls' = 0
    /\ UNCHANGED <<config, clarificationQuestions, persona, sources, discussionGuide,
                   interviewMode, chatSession, chatHistory, summary, error,
                   isLoadingGuide, appCall>>
    /\ UNCHANGED <<formVars, chatVars, orphanVars, openings, mounts, interviewerTurns,
                   sentinelSeen, retryVars, setupVars>>

\* part_000:150-161; offered by PersonaPreview (onBack) and SummaryView (onReset)
handleReset ==
    /\ \/ step = PREVIEW /\ persona # Null
       \/ step = SUMMARY /\ summary # Null /\ persona # Null /\ config # Null
    /\ step' = SETUP
    /\ config' = Null
    /\ persona' = Null
    /\ chatSession' = 0
    /\ sources' = <<>>
    /\ clarificationQuestions' = <<>>
    /\ summary' = Null
    /\ chatHistory' = <<>>
    /\ discussionGuide' = <<>>
    /\ error' = Null
    /\ stagePath' = <<SETUP>>
    /\ personaCalls' = 0
    /\ orphanSends' = 0
    /\ staleTurns' = staleTurns + orphanTurns
    /\ orphanTurns' = 0
    /\ openings' = 0
    /\ sentinelSeen' = FALSE
    /\ UNCHANGED <<interviewMode, isLoadingGuide, appCall, retryVars, setupVars>>
    /\ UNCHANGED <<formVars, chatVars, mounts, interviewerTurns>>

(* ------------------------- App: guide workflow ------------------------ *)

\* handleGenerateGuide showing the loading screen of RESEARCHING while it waits
handleGenerateGuide_ViaResearching ==
    /\ step = GUIDE_INPUT /\ ~isLoadingGuide
    /\ persona # Null /\ config # Null
    /\ isLoadingGuide' = TRUE
    /\ step' = RESEARCHING
    /\ appCall' = Some(Call("generateDiscussionGuide", "handleGenerateGuide", <<>>, <<>>))
    /\ UNCHANGED <<config, clarificationQuestions, persona, sources,
                   discussionGuide, interviewMode, chatSession, chatHistory, summary,
                   error>>
    /\ UNCHANGED <<formVars, chatVars, orphanVars, bookVars>>

\* part_000:99-103, from the button of GuideInputForm (disabled while loading)
handleGenerateGuide ==
    /\ step = GUIDE_INPUT /\ ~isLoadingGuide
    /\ persona # Null /\ config # Null
    /\ isLoadingGuide' = TRUE
    /\ appCall' = Some(Call("generateDiscussionGuide", "handleGenerateGuide", <<>>, <<>>))
    /\ UNCHANGED <<step, config, clarificationQuestions, persona, sources,
                   discussionGuide, interviewMode, chatSession, chatHistory, summary,
                   error>>
    /\ UNCHANGED <<formVars, chatVars, orphanVars, bookVars>>

\* part_000:103-110: generateDiscussionGuide has settled
GuideReturns(resp) ==
    /\ Awaiting("generateDiscussionGuide")
    /\ LET r == generateDiscussionGuide(resp) IN
       IF r.threw
       THEN /\ error' = Some(ErrGuide)
            /\ UNCHANGED <<discussionGuide, step, questions, edits>>
       ELSE /\ discussionGuide' = r.guide
            /\ step' = GUIDE_REVIEW
            /\ questions' = r.guide
            /\ edits' = 0
            /\ UNCHANGED error
    /\ isLoadingGuide' = FALSE
    /\ appCall' = Null
    /\ UNCHANGED <<config, clarificationQuestions, persona, sources, interviewMode,
                   chatSession, chatHistory, summary>>
    /\ UNCHANGED <<answers, chatVars, orphanVars, bookVars>>

\* GuideReview.handleEdit (part_001:321-325)
handleEdit(idx, newVal) ==
    /\ step = GUIDE_REVIEW /\ edits < MaxEdits
    /\ idx \in 1..Len(questions)
    /\ questions' = [questions EXCEPT ![idx] = newVal]
    /\ edits' = edits + 1
    /\ UNCHANGED <<appVars, answers, chatVars, orphanVars, bookVars>>

\* GuideReview.handleDelete (part_001:327-329)
handleDelete(idx) ==
    /\ step = GUIDE_REVIEW /\ edits < MaxEdits
    /\ idx \in 1..Len(questions)
    /\ questions' = [i \in 1..(Len(questions) - 1) |->
                        IF i < idx THEN questions[i] ELSE questions[i + 1]]
    /\ edits' = edits + 1
    /\ UNCHANGED <<appVars, answers, chatVars, orphanVars, bookVars>>

\* GuideReview.handleAdd (part_001:331-333)
handleAdd ==
    /\ step = GUIDE_REVIEW /\ edits < MaxEdits
    /\ questions' = Append(questions, <<>>)
    /\ edits' = edits + 1
    /\ UNCHANGED <<appVars, answers, chatVars, orphanVars, bookVars>>

\* the filter without the trim: q.length > 0
NotBlank_LengthOnly(q) == Len(q) > 0

\* the filter of the confirm button (part_001:374): q.trim().length > 0
NotBlank(q) == Len(Trim(q)) > 0

\* part_000:114-117
handleConfirmGuide(finalGuide) ==
    /\ discussionGuide' = finalGuide
    /\ step' = MODE_SELECTION
    /\ questions' = <<>>
    /\ edits' = 0
    /\ UNCHANGED <<config, clarificationQuestions, persona, sources, interviewMode,
                   chatSession, chatHistory, summary, error, isLoadingGuide, appCall>>
    /\ UNCHANGED <<answers, chatVars, orphanVars, bookVars>>

\* the confirm button of GuideReview (part_001:373-375)
GuideReviewConfirm ==
    /\ step = GUIDE_REVIEW
    /\ handleConfirmGuide(SelectSeq(questions, NotBlank))

(* ---------------------- ChatInterface: lifecycle ---------------------- *)

\* ChatInterface is rendered (part_000:287)
Mounted == step = INTERVIEW /\ chatSession # 0 /\ persona # Null

Message(role, text, isAi) == [role |-> role, text |-> text, isAiInterviewer |-> isAi]

\* The first render of a ChatInterface and its effects: fresh state
\* (part_001:23-30), then the greeting effect (part_001:38-55) up to its await;
\* the moderator effect returns at once, the transcript being empty.
Mount ==
    /\ mounts < MaxMounts
    /\ mounts' = mounts + 1
    /\ messages' = <<>>
    /\ aiModeratorStatus' = "idle"
    /\ hasStartedRef' = TRUE
    /\ isTyping' = TRUE
    /\ greetingPending' = TRUE
    /\ manualPending' = 0
    /\ modTurns' = <<>>
    /\ openings' = openings + 1

TurnsIn(phases) == Cardinality({i \in 1..Len(modTurns) : modTurns[i].phase \in phases})

\* ChatInterface leaves the screen: its state is dropped. Its awaits stay
\* outstanding; their continuations run later, and their state updates are
\* then without effect.
Unmount ==
    /\ messages' = <<>>
    /\ aiModeratorStatus' = "idle"
    /\ hasStartedRef' = FALSE
    /\ isTyping' = FALSE
    /\ greetingPending' = FALSE
    /\ manualPending' = 0
    /\ modTurns' = <<>>
    /\ orphanSends' = orphanSends + (IF greetingPending THEN 1 ELSE 0) + manualPending
                                  + TurnsIn({"send"})
    /\ orphanTurns' = orphanTurns + TurnsIn({"delay", "call"})
    /\ UNCHANGED staleTurns

(* ------------------------ App: interview stage ------------------------ *)

\* startInterview with setStep(INTERVIEW) after the try block, so that it runs
\* when createInterviewSession has thrown as well
startInterview_StepAfterTry(mode, created) ==
    /\ step = MODE_SELECTION /\ persona # Null
    /\ persona # Null /\ config # Null
    /\ interviewMode' = mode
    /\ step' = INTERVIEW
    /\ IF created
       THEN /\ chatSession' = 1
            /\ Mount
            /\ UNCHANGED error
       ELSE /\ error' = Some(ErrSession)
            /\ UNCHANGED <<chatSession, chatVars, openings, mounts>>
    /\ UNCHANGED <<config, clarificationQuestions, persona, sources, discussionGuide,
                   chatHistory, summary, isLoadingGuide, appCall>>
    /\ UNCHANGED <<formVars, orphanVars, interviewerTurns, sentinelSeen, retryVars,
                   setupVars, stagePath,
                   personaCalls>>

\* part_000:120-131; createInterviewSession returns a new channel or throws
startInterview(mode, created) ==
    /\ step = MODE_SELECTION /\ persona # Null
    /\ persona # Null /\ config # Null
    /\ interviewMode' = mode
    /\ IF created
       THEN /\ chatSession' = 1
            /\ step' = INTERVIEW
            /\ Mount
            /\ UNCHANGED error
       ELSE /\ error' = Some(ErrSession)
            /\ UNCHANGED <<chatSession, step, chatVars, openings, mounts>>
    /\ UNCHANGED <<config, clarificationQuestions, persona, sources, discussionGuide,
                   chatHistory, summary, isLoadingGuide, appCall>>
    /\ UNCHANGED <<formVars, orphanVars, interviewerTurns, sentinelSeen, retryVars,
                   setupVars, stagePath,
                   personaCalls>>

\* handleEndSession clearing the guide as handleReset does
handleEndSession_DropsGuide(msgs) ==
    /\ Mounted
    /\ persona # Null /\ config # Null
    /\ chatHistory' = msgs
    /\ discussionGuide' = <<>>
    /\ step' = RESEARCHING
    /\ appCall' = Some(Call("generateInterviewSummary", "handleEndSession", <<>>, msgs))
    /\ Unmount
    /\ UNCHANGED <<config, clarificationQuestions, persona, sources,
                   interviewMode, chatSession, summary, error, isLoadingGuide>>
    /\ UNCHANGED <<formVars, bookVars>>

\* handleEndSession without its setChatHistory: the stored transcript is stale
handleEndSession_StaleHistory(msgs) ==
    /\ Mounted
    /\ persona # Null /\ config # Null
    /\ step' = RESEARCHING
    /\ appCall' = Some(Call("generateInterviewSummary", "handleEndSession", <<>>, msgs))
    /\ Unmount
    /\ UNCHANGED <<config, clarificationQuestions, persona, sources, discussionGuide,
                   interviewMode, chatSession, chatHistory, summary, error,
                   isLoadingGuide>>
    /\ UNCHANGED <<formVars, bookVars>>

\* part_000:134-140, from the end button (part_001:197-202), up to the await
handleEndSession(msgs) ==
    /\ Mounted
    /\ persona # Null /\ config # Null
    /\ chatHistory' = msgs
    /\ step' = RESEARCHING
    /\ appCall' = Some(Call("generateInterviewSummary", "handleEndSession", <<>>, msgs))
    /\ Unmount
    /\ UNCHANGED <<config, clarificationQuestions, persona, sources, discussionGuide,
                   interviewMode, chatSession, summary, error, isLoadingGuide>>
    /\ UNCHANGED <<formVars, bookVars>>

EndButton == handleEndSession(messages)

\* the success branch of handleEndSession without its setStep(SUMMARY)
SummarySucceeds_StaysResearching(summaryData) ==
    /\ Awaiting("generateInterviewSummary")
    /\ summary' = Some(summaryData)
    /\ appCall' = Null
    /\ UNCHANGED <<step, config, clarificationQuestions, persona, sources,
                   discussionGuide, interviewMode, chatSession, chatHistory, error,
                   isLoadingGuide>>
    /\ UNCHANGED <<formVars, chatVars, orphanVars, bookVars>>

\* part_000:141-142
SummarySucceeds(summaryData) ==
    /\ Awaiting("generateInterviewSummary")
    /\ summary' = Some(summaryData)
    /\ step' = SUMMARY
    /\ appCall' = Null
    /\ UNCHANGED <<config, clarificationQuestions, persona, sources, discussionGuide,
                   interviewMode, chatSession, chatHistory, error, isLoadingGuide>>
    /\ UNCHANGED <<formVars, chatVars, orphanVars, bookVars>>

\* part_000:143-147: back to INTERVIEW, where ChatInterface is rendered anew
SummaryFails ==
    /\ Awaiting("generateInterviewSummary")
    /\ error' = Some(ErrSummary)
    /\ step' = INTERVIEW
    /\ appCall' = Null
    /\ IF chatSession # 0 /\ persona # Null
       THEN Mount
       ELSE UNCHANGED <<chatVars, openings, mounts>>
    /\ UNCHANGED <<config, clarificationQuestions, persona, sources, discussionGuide,
                   interviewMode, chatSession, chatHistory, summary, isLoadingGuide>>
    /\ UNCHANGED <<formVars, orphanVars, interviewerTurns, sentinelSeen, retryVars,
                   setupVars, stagePath,
                   personaCalls>>

(* --------------------- ChatInterface: moderator loop ------------------ *)

Last(s) == s[Len(s)]

RemoveAt(s, i) == [j \in 1..(Len(s) - 1) |-> IF j < i THEN s[j] ELSE s[j + 1]]

\* errors thrown by backend calls: status, code and message as the code reads them
Error(status, code, message) == [status |-> status, code |-> code, message |-> message]

RateLimitStatus == 429

Errors ==
    {Error(RateLimitStatus, 0, <<>>), Error(0, 0, <<"429">>), Error(0, RateLimitStatus, <<>>),
     Error(0, 0, <<"quota">>), Error(0, 0, <<"other">>)}

\* the retries and the first wait of runWithRetry by default
\* (PersonaPreview.tsx:292)
DefaultRetries == 5
DefaultDelay == 4000

\* the first wait asked for by analyzeRequirements and generatePersonaProfile
\* (PersonaPreview.tsx:364, 464, 508)
LongDelay == 5000

\* a rate-limit test that takes every error for a rate limit
isRateLimit_AnyError(e) == TRUE

\* the rate-limit test of runWithRetry (PersonaPreview.tsx:296)
isRateLimit(e) ==
    \/ e.status = RateLimitStatus
    \/ e.code = RateLimitStatus
    \/ Includes(e.message, "429")
    \/ Includes(e.message, "quota")

\* what one call of a backend operation does: it resolves or it throws
Resolved(value) == [ok |-> TRUE, value |-> value, error |-> Null]
Thrown(e) == [ok |-> FALSE, value |-> Null, error |-> Some(e)]

\* runWithRetry waiting the same time before every retry
RECURSIVE runWithRetry_FixedDelay(_, _, _)
runWithRetry_FixedDelay(operation, retries, delay) ==
    LET attempt == Head(operation) IN
    IF attempt.ok
    THEN [outcome |-> attempt, calls |-> 1, waits |-> <<>>]
    ELSE IF isRateLimit(attempt.error[1]) /\ retries > 0
    THEN LET r == runWithRetry_FixedDelay(Tail(operation), retries - 1, delay) IN
         [r EXCEPT !.calls = @ + 1, !.waits = <<delay>> \o @]
    ELSE [outcome |-> attempt, calls |-> 1, waits |-> <<>>]

\* runWithRetry (PersonaPreview.tsx:292-304); `operation` lists what its
\* successive calls do. The result is what the last call did, with the calls
\* made and the waits between them, in order.
RECURSIVE runWithRetry(_, _, _)
runWithRetry(operation, retries, delay) ==
    LET attempt == Head(operation) IN
    IF attempt.ok
    THEN [outcome |-> attempt, calls |-> 1, waits |-> <<>>]
    ELSE IF isRateLimit(attempt.error[1]) /\ retries > 0
    THEN LET r == runWithRetry(Tail(operation), retries - 1, delay * 2) IN
         [r EXCEPT !.calls = @ + 1, !.waits = <<delay>> \o @]
    ELSE [outcome |-> attempt, calls |-> 1, waits |-> <<>>]

\* a backend operation that throws e however often it is called
PersistentFailure(e) == [k \in 1..(DefaultRetries + 1) |-> Thrown(e)]

\* what one call of an operation passed to runWithRetry may do
Attempts == {Resolved(<<"w">>)} \cup {Thrown(e) : e \in Errors}

\* the calls of runWithRetry: an operation with an outcome for each call that
\* can be made of it, the retries and the first wait
RetryCalls ==
    UNION {{[operation |-> op, retries |-> n, delay |-> d] :
                op \in [1..(n + 1) -> Attempts], d \in {DefaultDelay, LongDelay}} :
            n \in 0..MaxRetries}
    \cup {[operation |-> PersistentFailure(e), retries |-> DefaultRetries,
            delay |-> DefaultDelay] : e \in Errors}

\* the rate-limit test of the moderator loop (part_001:96)
IsRateLimitInLoop(e) == e.status = RateLimitStatus \/ Includes(e.message, "429")

\* what the moderator backend may answer; "IC" stands for INTERVIEW_COMPLETE
ModeratorTexts == {<<>>, <<"SP">>, <<"w">>, <<"SP", "w">>, <<"w", "IC">>}

\* getAIInterviewerNextQuestion after its await (PersonaPreview.tsx:653-657)
getAIInterviewerNextQuestion(text) ==
    LET t == Trim(text) IN
    IF Includes(t, "IC") THEN Null
    ELSE IF t = <<>> THEN Null
    ELSE Some(t)

\* the guards of runAiModeratorLoop without the test of the mode
ModeratorActs_AnyMode(mode, msgs, typing) ==
    /\ Len(msgs) > 0
    /\ ~typing
    /\ msgs[Len(msgs)].role = "model"

\* the guards of runAiModeratorLoop (part_001:60-67)
ModeratorActs(mode, msgs, typing) ==
    /\ mode = AUTO
    /\ Len(msgs) > 0
    /\ ~typing
    /\ Last(msgs).role = "model"

\* The moderator effect (part_001:58-108) run after a render in which one of
\* its dependencies changed, up to the pacing delay: the moderator status and
\* the moderator turns it leaves.
runAiModeratorLoop(mode, msgs, typing, status, turns) ==
    IF ModeratorActs(mode, msgs, typing)
    THEN [status |-> "thinking",
          turns |-> Append(turns, [phase |-> "delay", history |-> msgs])]
    ELSE [status |-> status, turns |-> turns]

\* the state of the mounted ChatInterface after a render and its effects
Rendered(mode, msgs, typing, status, turns) ==
    LET r == runAiModeratorLoop(mode, msgs, typing, status, turns) IN
    /\ messages' = msgs
    /\ isTyping' = typing
    /\ aiModeratorStatus' = r.status
    /\ modTurns' = r.turns

\* the opening request (part_001:45) is answered: part_001:46-47, 50-52
GreetingSucceeds(text) ==
    /\ Mounted /\ greetingPending
    /\ greetingPending' = FALSE
    /\ Rendered(interviewMode, <<Message("model", OrElse(text, HelloText), FALSE)>>,
                FALSE, aiModeratorStatus, modTurns)
    /\ UNCHANGED <<appVars, formVars, hasStartedRef, manualPending,
                   orphanVars, bookVars>>

\* the opening request fails: part_001:48-52
\* the catch of startConversation appending the placeholder reply, as the catch
\* of handleManualSend does
GreetingFails_Placeholder ==
    /\ Mounted /\ greetingPending
    /\ greetingPending' = FALSE
    /\ Rendered(interviewMode,
                Append(messages, Message("model", NetworkText, FALSE)),
                FALSE, aiModeratorStatus, modTurns)
    /\ UNCHANGED <<appVars, formVars, hasStartedRef, manualPending,
                   orphanVars, bookVars>>

GreetingFails ==
    /\ Mounted /\ greetingPending
    /\ greetingPending' = FALSE
    /\ Rendered(interviewMode, messages, FALSE, aiModeratorStatus, modTurns)
    /\ UNCHANGED <<appVars, formVars, hasStartedRef, manualPending,
                   orphanVars, bookVars>>

\* the pacing delay of turn i is over (part_001:71): the moderator is asked
ModeratorDelayEnds(i) ==
    /\ Mounted /\ i \in 1..Len(modTurns) /\ modTurns[i].phase = "delay"
    /\ modTurns' = [modTurns EXCEPT ![i].phase = "call"]
    /\ UNCHANGED <<appVars, formVars, messages, isTyping, aiModeratorStatus,
                   hasStartedRef, greetingPending, manualPending, orphanVars,
                   bookVars>>

\* getAIInterviewerNextQuestion resolves in turn i: part_001:74-91, up to the
\* await of sendMessage
ModeratorAnswers(i, text) ==
    /\ Mounted /\ i \in 1..Len(modTurns) /\ modTurns[i].phase = "call"
    /\ LET nextQuestion == getAIInterviewerNextQuestion(text) IN
       IF nextQuestion # Null
       THEN /\ interviewerTurns < MaxTurns
            /\ interviewerTurns' = interviewerTurns + 1
            /\ Rendered(interviewMode,
                        Append(messages, Message("user", nextQuestion[1], TRUE)),
                        TRUE, "idle", [modTurns EXCEPT ![i].phase = "send"])
            /\ UNCHANGED <<interviewMode, sentinelSeen>>
       ELSE /\ interviewMode' = MANUAL
            /\ Rendered(MANUAL, messages, isTyping, "done", RemoveAt(modTurns, i))
            /\ sentinelSeen' = TRUE
            /\ UNCHANGED interviewerTurns
    /\ UNCHANGED <<step, config, clarificationQuestions, persona, sources,
                   discussionGuide, chatSession, chatHistory, summary, error,
                   isLoadingGuide, appCall>>
    /\ UNCHANGED <<formVars, hasStartedRef, greetingPending, manualPending, orphanVars,
                   openings, mounts, stagePath, personaCalls, retryVars, setupVars>>

\* the catch without the rate-limit test: every failure is retried
ModeratorCatches_AlwaysRetry(i, e) ==
    /\ modTurns' = [modTurns EXCEPT ![i].phase = "cooldown"]
    /\ UNCHANGED aiModeratorStatus

\* the catch of turn i (part_001:92-103), entered with error e from phase "call"
\* or "send": the cooldown begins, or the status goes idle
ModeratorCatches(i, e) ==
    IF IsRateLimitInLoop(e)
    THEN /\ modTurns' = [modTurns EXCEPT ![i].phase = "cooldown"]
         /\ UNCHANGED aiModeratorStatus
    ELSE /\ aiModeratorStatus' = "idle"
         /\ modTurns' = RemoveAt(modTurns, i)

\* getAIInterviewerNextQuestion throws in turn i: the backend throws e on every
\* call and runWithRetry (PersonaPreview.tsx:648-651) gives up
ModeratorThrows(i, e) ==
    /\ Mounted /\ i \in 1..Len(modTurns) /\ modTurns[i].phase = "call"
    /\ LET r == runWithRetry(PersistentFailure(e), DefaultRetries, DefaultDelay) IN
       /\ ~r.outcome.ok
       /\ ModeratorCatches(i, r.outcome.error[1])
    /\ UNCHANGED <<appVars, formVars, messages, isTyping, hasStartedRef,
                   greetingPending, manualPending, orphanVars, bookVars>>

\* the cooldown of turn i is over (part_001:98-99): setRetryTrigger runs the
\* effect again
ModeratorCooldownEnds(i) ==
    /\ Mounted /\ i \in 1..Len(modTurns) /\ modTurns[i].phase = "cooldown"
    /\ Rendered(interviewMode, messages, isTyping, aiModeratorStatus, RemoveAt(modTurns, i))
    /\ UNCHANGED <<appVars, formVars, hasStartedRef, greetingPending, manualPending,
                   orphanVars, bookVars>>

\* the send of turn i is answered (part_001:83-86)
ModeratorSendSucceeds(i, text) ==
    /\ Mounted /\ i \in 1..Len(modTurns) /\ modTurns[i].phase = "send"
    /\ Rendered(interviewMode,
                Append(messages, Message("model", OrElse(text, DotsText), FALSE)),
                FALSE, aiModeratorStatus, RemoveAt(modTurns, i))
    /\ UNCHANGED <<appVars, formVars, hasStartedRef, greetingPending,
                   manualPending, orphanVars, bookVars>>

\* the send of turn i fails: the same catch (part_001:92-103)
ModeratorSendFails(i, e) ==
    /\ Mounted /\ i \in 1..Len(modTurns) /\ modTurns[i].phase = "send"
    /\ ModeratorCatches(i, e)
    /\ UNCHANGED <<appVars, formVars, messages, isTyping, hasStartedRef,
                   greetingPending, manualPending, orphanVars, bookVars>>

(* ----------------------- ChatInterface: the user ---------------------- *)

\* what the delivery channel may answer
ReplyTexts == {<<"w">>}

\* a button that is shown in both modes and toggles the mode
SwitchToManualButton_Toggle ==
    /\ Mounted
    /\ interviewMode' = IF interviewMode = AUTO THEN MANUAL ELSE AUTO
    /\ Rendered(interviewMode', messages, isTyping, aiModeratorStatus, modTurns)
    /\ UNCHANGED <<step, config, clarificationQuestions, persona, sources,
                   discussionGuide, chatSession, chatHistory, summary, error,
                   isLoadingGuide, appCall>>
    /\ UNCHANGED <<formVars, hasStartedRef, greetingPending, manualPending,
                   orphanVars, bookVars>>

\* onSwitchToManual (part_000:294), from the buttons shown in Auto mode
\* (part_001:189-196, part_001:273-275)
SwitchToManualButton ==
    /\ Mounted /\ interviewMode = AUTO
    /\ interviewMode' = MANUAL
    /\ Rendered(MANUAL, messages, isTyping, aiModeratorStatus, modTurns)
    /\ UNCHANGED <<step, config, clarificationQuestions, persona, sources,
                   discussionGuide, chatSession, chatHistory, summary, error,
                   isLoadingGuide, appCall>>
    /\ UNCHANGED <<formVars, hasStartedRef, greetingPending, manualPending,
                   orphanVars, bookVars>>

\* handleManualSend without the test of isTyping
handleManualSend_NoAwaitTest(input) ==
    IF Trim(input) = <<>>
    THEN UNCHANGED vars
    ELSE /\ interviewerTurns < MaxTurns
         /\ interviewerTurns' = interviewerTurns + 1
         /\ interviewMode' = MANUAL
         /\ manualPending' = manualPending + 1
         /\ Rendered(MANUAL, Append(messages, Message("user", Trim(input), FALSE)),
                     TRUE, aiModeratorStatus, modTurns)
         /\ UNCHANGED <<step, config, clarificationQuestions, persona, sources,
                        discussionGuide, chatSession, chatHistory, summary, error,
                        isLoadingGuide, appCall>>
         /\ UNCHANGED <<formVars, hasStartedRef, greetingPending, orphanVars,
                        openings, mounts, stagePath, personaCalls, sentinelSeen,
                        retryVars, setupVars>>

\* handleManualSend (part_001:111-124), up to the await of sendMessage
handleManualSend(input) ==
    IF Trim(input) = <<>> \/ isTyping
    THEN UNCHANGED vars
    ELSE /\ interviewerTurns < MaxTurns
         /\ interviewerTurns' = interviewerTurns + 1
         /\ interviewMode' = MANUAL
         /\ manualPending' = manualPending + 1
         /\ Rendered(MANUAL, Append(messages, Message("user", Trim(input), FALSE)),
                     TRUE, aiModeratorStatus, modTurns)
         /\ UNCHANGED <<step, config, clarificationQuestions, persona, sources,
                        discussionGuide, chatSession, chatHistory, summary, error,
                        isLoadingGuide, appCall>>
         /\ UNCHANGED <<formVars, hasStartedRef, greetingPending, orphanVars,
                        openings, mounts, stagePath, personaCalls, sentinelSeen,
                        retryVars, setupVars>>

\* the input form, rendered in Manual mode only (part_001:264-297)
ManualForm(input) ==
    /\ Mounted /\ interviewMode = MANUAL
    /\ handleManualSend(input)

\* a manual send is answered (part_001:125-126, 130-132)
ManualSendSucceeds(text) ==
    /\ Mounted /\ manualPending > 0
    /\ manualPending' = manualPending - 1
    /\ Rendered(interviewMode,
                Append(messages, Message("model", OrElse(text, DotsText), FALSE)),
                FALSE, aiModeratorStatus, modTurns)
    /\ UNCHANGED <<appVars, formVars, hasStartedRef, greetingPending,
                   orphanVars, bookVars>>

\* the catch of handleManualSend without its placeholder message
ManualSendFails_NoPlaceholder ==
    /\ Mounted /\ manualPending > 0
    /\ manualPending' = manualPending - 1
    /\ Rendered(interviewMode, messages, FALSE, aiModeratorStatus, modTurns)
    /\ UNCHANGED <<appVars, formVars, hasStartedRef, greetingPending,
                   orphanVars, bookVars>>

\* a manual send fails (part_001:127-132)
ManualSendFails ==
    /\ Mounted /\ manualPending > 0
    /\ manualPending' = manualPending - 1
    /\ Rendered(interviewMode,
                Append(messages, Message("model", NetworkText, FALSE)),
                FALSE, aiModeratorStatus, modTurns)
    /\ UNCHANGED <<appVars, formVars, hasStartedRef, greetingPending,
                   orphanVars, bookVars>>

(* ------------- continuations of an unmounted ChatInterface ------------ *)

\* a sendMessage of an unmounted ChatInterface settles: the state updates
\* that follow it change nothing
OrphanSendSettles ==
    /\ orphanSends > 0
    /\ orphanSends' = orphanSends - 1
    /\ UNCHANGED <<appVars, formVars, chatVars, orphanTurns, staleTurns, bookVars>>

\* onSwitchToManual called by a continuation of an unmounted ChatInterface
LateSwitchToManual ==
    /\ interviewMode' = MANUAL
    /\ IF Mounted
       THEN /\ Rendered(MANUAL, messages, isTyping, aiModeratorStatus, modTurns)
            /\ UNCHANGED <<hasStartedRef, greetingPending, manualPending>>
       ELSE UNCHANGED chatVars
    /\ UNCHANGED <<step, config, clarificationQuestions, persona, sources,
                   discussionGuide, chatSession, chatHistory, summary, error,
                   isLoadingGuide, appCall>>

\* A moderator turn of an unmounted ChatInterface hears from the moderator
\* (part_001:71-91), its channel still being the one of chatSession: a
\* question is sent on the channel, the sentinel calls onSwitchToManual; the
\* state updates of the turn change nothing.
OrphanModeratorAnswers(text) ==
    /\ orphanTurns > 0
    /\ orphanTurns' = orphanTurns - 1
    /\ IF getAIInterviewerNextQuestion(text) # Null
       THEN /\ orphanSends' = orphanSends + 1
            /\ UNCHANGED <<appVars, chatVars, sentinelSeen>>
       ELSE /\ LateSwitchToManual
            /\ sentinelSeen' = TRUE
            /\ UNCHANGED orphanSends
    /\ UNCHANGED <<formVars, staleTurns, openings, mounts, interviewerTurns, stagePath,
                   personaCalls, retryVars, setupVars>>

\* the same on a channel that App has dropped
StaleModeratorAnswers(text) ==
    /\ staleTurns > 0
    /\ staleTurns' = staleTurns - 1
    /\ IF getAIInterviewerNextQuestion(text) # Null
       THEN UNCHANGED <<appVars, chatVars>>
       ELSE LateSwitchToManual
    /\ UNCHANGED <<formVars, orphanSends, orphanTurns, bookVars>>

\* the moderator call of such a turn throws: its catch (part_001:92-103)
\* updates only the state of the unmounted ChatInterface
OrphanModeratorThrows ==
    /\ orphanTurns > 0
    /\ orphanTurns' = orphanTurns - 1
    /\ UNCHANGED <<appVars, formVars, chatVars, orphanSends, staleTurns, bookVars>>

StaleModeratorThrows ==
    /\ staleTurns > 0
    /\ staleTurns' = staleTurns - 1
    /\ UNCHANGED <<appVars, formVars, chatVars, orphanSends, orphanTurns, bookVars>>

(* --------------------------- specification ---------------------------- *)

Next ==
    \/ \E input \in SetupInputs : SetupFormSubmit(input)
    \/ \E resp \in AnalysisResponses : AnalyzeReturns(resp)
    \/ \E i \in 1..Len(answers) :
         \E o \in 1..Len(clarificationQuestions[i].options) :
            handleOptionSelect(i, clarificationQuestions[i].options[o])
    \/ ClarificationFormSubmit
    \/ \E result \in PersonaResults : PersonaSucceeds(result)
    \/ PersonaFails
    \/ handleConfirmProfile
    \/ handleReset
    \/ handleGenerateGuide
    \/ \E resp \in GuideResponses : GuideReturns(resp)
    \/ GuideReviewConfirm
    \/ \E mode \in InterviewMode, created \in BOOLEAN : startInterview(mode, created)
    \/ EndButton
    \/ \E summaryData \in SummaryResults : SummarySucceeds(summaryData)
    \/ SummaryFails
    \/ \E text \in ReplyTexts : GreetingSucceeds(text)
    \/ GreetingFails
    \/ \E i \in 1..Len(modTurns) : ModeratorDelayEnds(i)
    \/ \E i \in 1..Len(modTurns), text \in ModeratorTexts : ModeratorAnswers(i, text)
    \/ \E i \in 1..Len(modTurns), e \in Errors : ModeratorThrows(i, e)
    \/ \E i \in 1..Len(modTurns) : ModeratorCooldownEnds(i)
    \/ \E i \in 1..Len(modTurns), text \in ReplyTexts : ModeratorSendSucceeds(i, text)
    \/ \E i \in 1..Len(modTurns), e \in Errors : ModeratorSendFails(i, e)
    \/ SwitchToManualButton
    \/ \E input \in Texts : ManualForm(input)
    \/ \E text \in ReplyTexts : ManualSendSucceeds(text)
    \/ ManualSendFails
    \/ OrphanSendSettles
    \/ \E text \in ModeratorTexts : OrphanModeratorAnswers(text)
    \/ \E text \in ModeratorTexts : StaleModeratorAnswers(text)
    \/ OrphanModeratorThrows
    \/ StaleModeratorThrows

Spec == Init /\ [][Next]_vars

\* the workflow up to the confirmation of the guide, with the edits of GuideReview
NextGuide ==
    \/ \E input \in SetupInputs : SetupFormSubmit(input)
    \/ \E resp \in AnalysisResponses : AnalyzeReturns(resp)
    \/ \E i \in 1..Len(answers) :
         \E o \in 1..Len(clarificationQuestions[i].options) :
            handleOptionSelect(i, clarificationQuestions[i].options[o])
    \/ ClarificationFormSubmit
    \/ \E result \in PersonaResults : PersonaSucceeds(result)
    \/ PersonaFails
    \/ handleConfirmProfile
    \/ handleReset
    \/ handleGenerateGuide
    \/ \E resp \in AllGuideResponses : GuideReturns(resp)
    \/ \E idx \in 1..Len(questions), newVal \in Texts : handleEdit(idx, newVal)
    \/ \E idx \in 1..Len(questions) : handleDelete(idx)
    \/ handleAdd
    \/ GuideReviewConfirm

SpecGuide == Init /\ [][NextGuide]_vars

\* runWithRetry on its own: a call is given, and it settles
InitRetry == Constructed /\ retryCall \in {Some(c) : c \in RetryCalls} /\ retryResult = Null

runWithRetrySettles ==
    /\ retryCall # Null /\ retryResult = Null
    /\ retryResult' = Some(runWithRetry(retryCall[1].operation, retryCall[1].retries,
                                        retryCall[1].delay))
    /\ UNCHANGED <<appVars, formVars, chatVars, orphanVars, openings, mounts,
                   interviewerTurns, stagePath, personaCalls, sentinelSeen, retryCall,
                   setupVars>>

NextRetry == runWithRetrySettles

SpecRetry == InitRetry /\ [][NextRetry]_vars

\* every collaborator call of the App returns, with a result or a failure
\* (part_000:37, 46, 66, 141: each await settles)
AnalyzeSettles == \E resp \in AnalysisResponses : AnalyzeReturns(resp)
PersonaSettles == (\E result \in PersonaResults : PersonaSucceeds(result)) \/ PersonaFails
SummarySettles == (\E summaryData \in SummaryResults : SummarySucceeds(summaryData)) \/ SummaryFails

\* one call of the App is awaited at a time (appCall), so one condition covers
\* the three collaborators
CollaboratorsReturn == WF_vars(AnalyzeSettles \/ PersonaSettles \/ SummarySettles)

\* the App component by itself: its workflow entry points and the returns of
\* the calls they await (part_000:32-161), ChatInterface being left alone
\* between its mount and the end button
NextStages ==
    \/ \E input \in SetupInputs : SetupFormSubmit(input)
    \/ AnalyzeSettles
    \/ \E i \in 1..Len(answers) :
         \E o \in 1..Len(clarificationQuestions[i].options) :
            handleOptionSelect(i, clarificationQuestions[i].options[o])
    \/ ClarificationFormSubmit
    \/ PersonaSettles
    \/ handleConfirmProfile
    \/ handleReset
    \/ handleGenerateGuide
    \/ \E resp \in GuideResponses : GuideReturns(resp)
    \/ GuideReviewConfirm
    \/ \E mode \in InterviewMode, created \in BOOLEAN : startInterview(mode, created)
    \/ EndButton
    \/ SummarySettles

SpecStages == Init /\ [][NextStages]_vars /\ CollaboratorsReturn

\* every chatSession.sendMessage of the mounted ChatInterface returns, with a
\* reply or a failure (part_001:45, 83, 124)
GreetingSettles == (\E text \in ReplyTexts : GreetingSucceeds(text)) \/ GreetingFails
ManualSendSettles == (\E text \in ReplyTexts : ManualSendSucceeds(text)) \/ ManualSendFails
ModeratorSendSettles ==
    \E i \in 1..Len(modTurns) :
        \/ \E text \in ReplyTexts : ModeratorSendSucceeds(i, text)
        \/ \E e \in Errors : ModeratorSendFails(i, e)

ChannelReturns ==
    /\ WF_vars(GreetingSettles)
    /\ WF_vars(ManualSendSettles)
    /\ WF_vars(ModeratorSendSettles)

SpecChannel == Init /\ [][Next]_vars /\ ChannelReturns

(* ----------------------- SetupForm: reference materials --------------- *)

\* files and texts supplied to one SetupForm, and the readings of Date.now()
MaxMaterials == 3
MaxClock == 2

\* what the user hands to the file input (nothing, or a file) and to the prompt
FileInputs == BOOLEAN
UrlInputs == {<<>>, <<"SP">>, <<"w">>}

\* types.ts:18-24; content stands for the n-th file or text supplied
ReferenceMaterial(id, type, content) == [id |-> id, type |-> type, content |-> content]

\* the rest of the module leaves SetupForm's materials alone
SetupIdle == UNCHANGED <<appVars, formVars, chatVars, orphanVars, openings, mounts,
                         interviewerTurns, stagePath, personaCalls, sentinelSeen,
                         retryVars>>

\* part_002:23-42: the handler up to reader.readAsDataURL; the callback keeps
\* the materials of the render that created it
handleFileUpload(file) ==
    /\ step = SETUP /\ supplied < MaxMaterials
    /\ IF file
       THEN /\ supplied' = supplied + 1
            /\ reads' = Append(reads, [materials |-> materials, content |-> supplied + 1])
       ELSE UNCHANGED <<supplied, reads>>
    /\ UNCHANGED <<materials, now, added, removed>>
    /\ SetupIdle

\* part_002:29-39: reader.onload of a read that has finished
onload(i) ==
    /\ step = SETUP /\ i \in 1..Len(reads)
    /\ materials' = Append(reads[i].materials,
                           ReferenceMaterial(now, "file", reads[i].content))
    /\ added' = added \cup {reads[i].content}
    /\ reads' = RemoveAt(reads, i)
    /\ UNCHANGED <<now, supplied, removed>>
    /\ SetupIdle

\* part_002:45-56
handleAddLink(url) ==
    /\ step = SETUP /\ supplied < MaxMaterials
    /\ IF url # <<>>
       THEN /\ supplied' = supplied + 1
            /\ materials' = Append(materials, ReferenceMaterial(now, "text", supplied + 1))
            /\ added' = added \cup {supplied + 1}
       ELSE UNCHANGED <<supplied, materials, added>>
    /\ UNCHANGED <<reads, now, removed>>
    /\ SetupIdle

\* part_002:58-60, from the remove button of the idx-th material (part_002:154)
removeMaterial(idx) ==
    /\ step = SETUP /\ idx \in 1..Len(materials)
    /\ LET id == materials[idx].id IN
       materials' = SelectSeq(materials, LAMBDA m : m.id # id)
    /\ removed' = removed \cup {materials[idx].content}
    /\ UNCHANGED <<reads, now, supplied, added>>
    /\ SetupIdle

\* a millisecond passes
Tick ==
    /\ now < MaxClock
    /\ now' = now + 1
    /\ UNCHANGED <<materials, reads, supplied, added, removed>>
    /\ SetupIdle

NextSetup ==
    \/ \E file \in FileInputs : handleFileUpload(file)
    \/ \E i \in 1..Len(reads) : onload(i)
    \/ \E url \in UrlInputs : handleAddLink(url)
    \/ \E idx \in 1..Len(materials) : removeMaterial(idx)
    \/ Tick

SpecSetup == Init /\ [][NextSetup]_vars

(* ------------------------------ properties ---------------------------- *)

\* the Session as it is when the application starts (part_000:14-29)
SessionIsInitial ==
    /\ step = SETUP
    /\ config = Null
    /\ clarificationQuestions = <<>>
    /\ persona = Null
    /\ sources = <<>>
    /\ discussionGuide = <<>>
    /\ interviewMode = MANUAL
    /\ chatSession = 0
    /\ chatHistory = <<>>
    /\ summary = Null
    /\ error = Null

\* C1: after reset the stage is Setup and every other Session field has its
\* initial value; in particular interviewMode is Manual again, even if the
\* previous interview was started in Auto.
C1_ResetRestoresInitialSession == [][handleReset => SessionIsInitial']_vars

\* C1: a reset has been made after an interview started in Auto
C1_ResetAfterAuto == step = SETUP /\ config = Null /\ interviewMode = AUTO

\* C2: endInterview stores the transcript it is given, moves to Researching and
\* invokes summary generation with that transcript; if the summary fails the
\* stage returns to Interview and the interview's transcript is the sequence
\* of messages it was before ending, so that ending again hands over the same
\* transcript.
C2_TranscriptIntactAfterSummaryFailure ==
    [][/\ EndButton =>
            /\ chatHistory' = messages
            /\ step' = RESEARCHING
            /\ appCall' = Some(Call("generateInterviewSummary", "handleEndSession",
                                    <<>>, messages))
       /\ SummaryFails =>
            /\ step' = INTERVIEW
            /\ chatHistory' = chatHistory
            /\ messages' = chatHistory]_vars

\* C2: the summary of a non-empty transcript has failed and the interview is
\* shown again
C2_BackInInterview ==
    step = INTERVIEW /\ error = Some(ErrSummary) /\ chatHistory # <<>> /\ Mounted

\* C3: the transcript never contains two consecutive interviewer messages
\* (the interviewer speaks with role 'user'), whatever the interleaving of the
\* moderator's turns with a switch to Manual and a manual send.
C3_NoConsecutiveInterviewerMessages ==
    \A i \in 1..(Len(messages) - 1) :
        ~(messages[i].role = "user" /\ messages[i + 1].role = "user")

\* the sendMessage requests outstanding on the channel held by chatSession
OutstandingSends ==
    (IF greetingPending THEN 1 ELSE 0) + manualPending + TurnsIn({"send"}) + orphanSends

\* C4: there are never two outstanding send requests on the same delivery
\* channel: the opening request, manual sends and the moderator's sends
\* exclude each other.
C4_OneOutstandingSend == OutstandingSends <= 1

\* C5: the scripted opening turn is issued exactly once per delivery channel,
\* however often the interview screen is shown again on that channel.
C5_OneOpeningPerChannel == openings <= 1

\* the transcript of the interview: the messages of the chat screen while it
\* is shown, the transcript handed to endInterview while the summary is made
Transcript == IF Mounted THEN messages ELSE chatHistory

ActiveInterview == chatSession # 0 /\ summary = Null /\ step \in {INTERVIEW, RESEARCHING}

\* C6: during an active interview the transcript is append-only: at any two
\* moments the earlier transcript is a prefix of the later one.
C6_TranscriptAppendOnly ==
    [][(ActiveInterview /\ ActiveInterview') => IsPrefix(Transcript, Transcript')]_vars

\* the guide-generation collaborator fails
GuideCollaboratorFails ==
    /\ Awaiting("generateDiscussionGuide")
    /\ \E resp \in GuideResponses : ~resp.ok /\ GuideReturns(resp)

\* C7 (as stated): when the guide-generation collaborator fails, an error is
\* surfaced, the stage remains GuideInput, and persona and config are unchanged.
C7_GuideFailureSurfacesError ==
    [][GuideCollaboratorFails =>
          /\ error' = Some(ErrGuide)
          /\ step' = GUIDE_INPUT
          /\ persona' = persona
          /\ config' = config]_vars

\* C7 (as the code has it): when the guide-generation collaborator fails, the
\* three-question fallback guide is stored and the stage moves to GuideReview;
\* no error is set, and persona and config are unchanged.
C7_GuideFailureFallsBack ==
    [][GuideCollaboratorFails =>
          /\ error' = error
          /\ step' = GUIDE_REVIEW
          /\ discussionGuide' = FallbackGuide
          /\ persona' = persona
          /\ config' = config]_vars

\* C7: the fallback guide is under review
C7_FallbackUnderReview ==
    step = GUIDE_REVIEW /\ discussionGuide = FallbackGuide /\ error = Null

\* a workflow transition that succeeds: a stage is entered on the success of
\* a collaborator
SuccessfulTransition ==
    \/ step = RESEARCHING /\ step' = PREVIEW
    \/ step = GUIDE_INPUT /\ step' = GUIDE_REVIEW
    \/ step = MODE_SELECTION /\ step' = INTERVIEW
    \/ step = RESEARCHING /\ step' = SUMMARY

\* C8: at most one error message is active at a time, and it is cleared after
\* any successful workflow transition.
C8_ErrorClearedOnSuccess == [][SuccessfulTransition => error' = Null]_vars

\* requirement analysis returns zero questions (or none)
AnalysisReturnsNoQuestions ==
    /\ Awaiting("analyzeRequirements")
    /\ \E resp \in AnalysisResponses :
          Len(analyzeRequirements(resp)) = 0 /\ AnalyzeReturns(resp)

\* the persona generation invoked by submitInitialConfig succeeds
InitialPersonaSucceeds ==
    /\ Awaiting("generatePersonaProfile")
    /\ appCall[1].caller = "handleInitialSubmit"
    /\ \E result \in PersonaResults : PersonaSucceeds(result)

\* C9: if requirement analysis returns zero questions, persona generation is
\* invoked exactly once, with an empty list of clarifications, and the stages
\* visited are Setup, Researching, Preview in that order, never Clarifying.
C9_NoQuestionsSkipsClarifying ==
    [][/\ AnalysisReturnsNoQuestions =>
            /\ appCall' = Some(Call("generatePersonaProfile", "handleInitialSubmit",
                                    <<>>, <<>>))
            /\ personaCalls' = 1
            /\ step' = RESEARCHING
            /\ stagePath' = <<SETUP, RESEARCHING>>
       /\ InitialPersonaSucceeds =>
            /\ personaCalls' = 1
            /\ step' = PREVIEW
            /\ stagePath' = <<SETUP, RESEARCHING, PREVIEW>>]_vars

\* C9: the profile is previewed after an analysis without questions
C9_PreviewWithoutClarifying ==
    step = PREVIEW /\ stagePath = <<SETUP, RESEARCHING, PREVIEW>> /\ personaCalls = 1

\* requirement analysis returns the questions qs, one at least
AnalysisReturnsQuestions(qs) ==
    /\ Awaiting("analyzeRequirements")
    /\ Len(qs) > 0
    /\ \E resp \in AnalysisResponses :
          analyzeRequirements(resp) = qs /\ AnalyzeReturns(resp)

\* C10: if requirement analysis returns N > 0 questions, the stages visited
\* are Setup, Researching, Clarifying, with N questions stored; persona
\* generation is not invoked before a submission that carries a non-empty
\* answer for each of the N questions.
C10_QuestionsLeadToClarifying ==
    [][/\ \A n \in 1..MaxQuestions :
             AnalysisReturnsQuestions(QuestionList(n)) =>
                /\ step' = CLARIFYING
                /\ clarificationQuestions' = QuestionList(n)
                /\ Len(clarificationQuestions') = n
       /\ step' = CLARIFYING =>
             /\ stagePath' = <<SETUP, RESEARCHING, CLARIFYING>>
             /\ Len(clarificationQuestions') > 0
             /\ personaCalls' = 0
             /\ appCall' = Null
       /\ (step = CLARIFYING /\ personaCalls' # personaCalls) =>
             /\ appCall' # Null
             /\ appCall'[1].op = "generatePersonaProfile"
             /\ Len(appCall'[1].clarifications) = Len(clarificationQuestions)
             /\ \A i \in 1..Len(clarificationQuestions) :
                   appCall'[1].clarifications[i] # ""]_vars

\* C10: persona generation has been invoked with an answer to each of two
\* questions
C10_AnsweredSubmission ==
    /\ Awaiting("generatePersonaProfile")
    /\ appCall[1].caller = "handleClarificationSubmit"
    /\ Len(clarificationQuestions) = 2
    /\ Len(appCall[1].clarifications) = 2
    /\ stagePath = <<SETUP, RESEARCHING, CLARIFYING, RESEARCHING>>

\* C11: a clarification submission in which at least one answer is missing or
\* empty is rejected locally: persona generation is not invoked, and the stage
\* (Clarifying) and all Session fields stay unchanged.
C11_IncompleteSubmissionRejected ==
    [][(/\ step = CLARIFYING
        /\ \E i \in 1..Len(answers) : answers[i] = ""
        /\ ClarificationFormSubmit)
          => /\ UNCHANGED appVars
             /\ personaCalls' = personaCalls
             /\ step' = CLARIFYING]_vars

\* C11: ClarificationForm holds one answer of two, and no persona generation
\* has been invoked
C11_PartlyAnswered ==
    /\ step = CLARIFYING
    /\ Len(answers) = 2 /\ answers[1] # "" /\ answers[2] = ""
    /\ personaCalls = 0 /\ appCall = Null

\* the requirement-analysis collaborator fails
AnalysisCollaboratorFails ==
    /\ Awaiting("analyzeRequirements")
    /\ \E resp \in AnalysisResponses : ~resp.ok /\ AnalyzeReturns(resp)

\* the requirement-analysis collaborator answers with no question
AnalysisAnswersNoQuestion ==
    /\ Awaiting("analyzeRequirements")
    /\ \E resp \in AnalysisResponses :
          resp.ok /\ Len(resp.questions) = 0 /\ AnalyzeReturns(resp)

\* C12: a failure of the requirement-analysis collaborator is not surfaced as
\* an error and does not return the stage to Setup: persona generation is
\* invoked with empty clarifications, exactly as if zero questions had been
\* returned.
C12_AnalysisFailureMeansNoQuestions ==
    [][AnalysisCollaboratorFails =>
          /\ error' = Null
          /\ step' = RESEARCHING
          /\ appCall' = Some(Call("generatePersonaProfile", "handleInitialSubmit",
                                  <<>>, <<>>))
          /\ personaCalls' = 1
          /\ AnalysisAnswersNoQuestion]_vars

\* C12: persona generation is awaited with no clarifications, straight from
\* submitInitialConfig, and no error is shown
C12_PersonaAwaitedWithoutClarifying ==
    /\ Awaiting("generatePersonaProfile")
    /\ appCall[1].caller = "handleInitialSubmit"
    /\ appCall[1].clarifications = <<>>
    /\ step = RESEARCHING /\ error = Null
    /\ stagePath = <<SETUP, RESEARCHING>>

\* C13: if persona generation fails, whether invoked from submitInitialConfig
\* or from submitClarifications, an error is surfaced, the stage returns to
\* Setup, persona stays absent, and the config submitted by the user is
\* preserved.
C13_PersonaFailureReturnsToSetup ==
    [][(Awaiting("generatePersonaProfile") /\ PersonaFails) =>
          /\ appCall[1].caller \in {"handleInitialSubmit", "handleClarificationSubmit"}
          /\ error' # Null
          /\ step' = SETUP
          /\ persona = Null /\ persona' = Null
          /\ config # Null /\ config' = config]_vars

\* C13: persona generation invoked from submitClarifications has failed
C13_BackAtSetupWithConfig ==
    /\ step = SETUP /\ error = Some(ErrPersona)
    /\ config # Null /\ persona = Null
    /\ stagePath = <<SETUP, RESEARCHING, CLARIFYING, RESEARCHING, SETUP>>

\* C14: startInterview(mode) from ModeSelection with persona and config
\* present: on success it stores the mode, stores a new delivery channel and
\* moves to Interview; if channel creation fails, an error is surfaced, no
\* channel is stored and the stage remains ModeSelection.
C14_StartInterview ==
    [][step = MODE_SELECTION =>
         \A mode \in InterviewMode :
            /\ startInterview(mode, TRUE) =>
                  /\ interviewMode' = mode
                  /\ chatSession = 0 /\ chatSession' # 0
                  /\ step' = INTERVIEW
                  /\ error' = error
            /\ startInterview(mode, FALSE) =>
                  /\ error' = Some(ErrSession)
                  /\ chatSession' = 0
                  /\ step' = MODE_SELECTION]_vars

\* C14: an interview has been started in Auto after a first attempt whose
\* channel creation failed
C14_StartedAfterFailedAttempt ==
    /\ step = INTERVIEW /\ chatSession # 0 /\ interviewMode = AUTO
    /\ error = Some(ErrSession)
    /\ mounts = 1 /\ greetingPending

\* the stage changes of the workflow, forward and on failure
StageEdges ==
    {<<SETUP, RESEARCHING>>, <<RESEARCHING, CLARIFYING>>, <<RESEARCHING, PREVIEW>>,
     <<CLARIFYING, RESEARCHING>>, <<PREVIEW, GUIDE_INPUT>>, <<GUIDE_INPUT, GUIDE_REVIEW>>,
     <<GUIDE_REVIEW, MODE_SELECTION>>, <<MODE_SELECTION, INTERVIEW>>,
     <<INTERVIEW, RESEARCHING>>, <<RESEARCHING, SUMMARY>>,
     <<RESEARCHING, SETUP>>, <<RESEARCHING, INTERVIEW>>}

\* a step that clears the Session as reset does (part_000:151-160)
ResetStep ==
    /\ step' = SETUP
    /\ config' = Null /\ persona' = Null /\ chatSession' = 0 /\ summary' = Null
    /\ chatHistory' = <<>> /\ discussionGuide' = <<>> /\ error' = Null

\* C15: every change of stage is one of the defined edges (the forward edges,
\* the failure edges Researching->Setup and Researching->Interview, and reset
\* from any stage to Setup), and Researching->Interview occurs only after a
\* failed summary generation.
C15_StageEdges ==
    [][step' # step =>
         /\ <<step, step'>> \in StageEdges \/ ResetStep
         /\ (step = RESEARCHING /\ step' = INTERVIEW) =>
               /\ Awaiting("generateInterviewSummary")
               /\ appCall' = Null
               /\ error' = Some(ErrSummary)]_vars

\* C15: a summary has been made after a first summary generation failed
C15_SummaryAfterFailedSummary ==
    step = SUMMARY /\ summary # Null /\ error = Some(ErrSummary) /\ mounts = 2

\* C16: between entering Interview via startInterview and the next reset,
\* interviewMode never changes from Manual to Auto; the only mode change that
\* can occur in that interval is Auto to Manual.
C16_ModeOnlyDowngrades ==
    [][(chatSession # 0 /\ interviewMode' # interviewMode) =>
          (interviewMode = AUTO /\ interviewMode' = MANUAL)]_vars

\* C16: an interview started in Auto, in which the moderator has asked a
\* question, is now in Manual
C16_DowngradedInterview ==
    /\ Mounted /\ interviewMode = MANUAL
    /\ \E i \in 1..Len(messages) : messages[i].isAiInterviewer

\* a message flagged as automated interviewer is appended to the transcript
ModeratorMessageAppended ==
    /\ Len(messages') = Len(messages) + 1
    /\ Last(messages').isAiInterviewer

\* C17: when the moderator collaborator returns the completion sentinel,
\* moderator status becomes 'done' and interviewMode becomes Manual, and from
\* that point on no further message flagged as automated interviewer is
\* appended to the transcript.
C17_SentinelEndsModeration ==
    [][/\ (~sentinelSeen /\ sentinelSeen') =>
            /\ interviewMode' = MANUAL
            /\ Mounted' => aiModeratorStatus' = "done"
       /\ sentinelSeen => ~ModeratorMessageAppended]_vars

\* C18: a rate-limit failure raised during a moderator turn results in exactly
\* one retry of the moderator turn after the cooldown, invoked with the same
\* transcript (guide and persona do not change during an interview) as the
\* failed attempt. Stated for the interview left in Auto mode.
C18_OneRetryAfterCooldown ==
    [][interviewMode = AUTO =>
         \A i \in 1..Len(modTurns) :
            ModeratorCooldownEnds(i) =>
               /\ Len(modTurns') = Len(modTurns)
               /\ Last(modTurns').phase = "delay"
               /\ Last(modTurns').history = modTurns[i].history
               /\ messages' = modTurns[i].history
               /\ interviewMode' = AUTO]_vars

\* C18: in Auto mode no moderator turn and no request is in flight, and the
\* interview still waits for the respondent's answer to the moderator's
\* question
C18_WaitingForNoOne ==
    /\ Mounted /\ interviewMode = AUTO
    /\ isTyping /\ ~greetingPending /\ manualPending = 0 /\ modTurns = <<>>
    /\ Len(messages) > 0 /\ Last(messages).isAiInterviewer

\* the Auto-mode loop at rest with the respondent's message unanswered: no
\* turn in flight although the guards of runAiModeratorLoop hold
Stalled ==
    /\ Mounted /\ modTurns = <<>> /\ aiModeratorStatus = "idle"
    /\ ModeratorActs(interviewMode, messages, isTyping)

\* C19: when the moderator-decision collaborator fails with a non-rate-limit
\* error, moderator status returns to idle, the transcript is unchanged, the
\* stage stays Interview and the mode stays Auto, and no new moderator turn
\* starts until some external state change occurs.
C19_OtherFailureGoesIdle ==
    [][/\ (Mounted /\ modTurns # <<>>) =>
            \A i \in 1..Len(modTurns), e \in Errors :
               (~IsRateLimitInLoop(e) /\ ModeratorThrows(i, e)) =>
                  /\ aiModeratorStatus' = "idle"
                  /\ messages' = messages
                  /\ step' = INTERVIEW
                  /\ interviewMode' = interviewMode
                  /\ modTurns' = RemoveAt(modTurns, i)
       /\ Stalled => modTurns' = <<>>]_vars

\* C19: the loop is at rest in Auto mode after the greeting, the respondent's
\* message being the last one
C19_StalledAfterGreeting ==
    Stalled /\ Len(messages) = 1 /\ mounts = 1

\* C20: when the backend keeps rejecting the moderator call with a rate-limit
\* error and runWithRetry has used up its retries, the error reaches the
\* moderator loop and the loop goes idle: the turn ends without a cooldown, so
\* that no further moderator call follows from it.
C20_ExhaustedRetriesGoIdle ==
    [][(Mounted /\ modTurns # <<>>) =>
          \A i \in 1..Len(modTurns), e \in Errors :
              (/\ isRateLimit(e)
               /\ runWithRetry(PersistentFailure(e), DefaultRetries,
                               DefaultDelay).calls = DefaultRetries + 1
               /\ ModeratorThrows(i, e)) =>
                  (/\ aiModeratorStatus' = "idle"
                   /\ modTurns' = RemoveAt(modTurns, i))]_vars

\* the moderator turns in flight in the interview on the channel held by
\* chatSession: those of the mounted ChatInterface in their pacing delay, their
\* moderator call or their send, and those of unmounted ones not yet decided
ModeratorTurnsInFlight == TurnsIn({"delay", "call", "send"}) + orphanTurns

\* C21: at most one moderator turn (pacing delay, moderator call and the send
\* it triggers) is in flight at any time within one interview.
C21_OneModeratorTurnInFlight == ModeratorTurnsInFlight <= 1

\* C22: in Manual mode a submission appends one interviewer message, sets the
\* awaiting flag and sends to the channel; when the send settles exactly one
\* respondent message is appended (the reply, or a placeholder if the send
\* failed) and the awaiting flag is cleared; a failed send leaves the stage
\* and the rest of the Session as they are.
C22_ManualTurn ==
    [][Mounted =>
        /\ \A input \in Texts :
              (/\ interviewMode = MANUAL /\ ~isTyping /\ Trim(input) # <<>>
               /\ ManualForm(input)) =>
                  /\ messages' = Append(messages, Message("user", Trim(input), FALSE))
                  /\ isTyping'
                  /\ manualPending' = manualPending + 1
                  /\ step' = INTERVIEW
        /\ \A text \in ReplyTexts :
              (manualPending > 0 /\ ManualSendSucceeds(text)) =>
                  /\ messages' = Append(messages, Message("model", text, FALSE))
                  /\ ~isTyping'
                  /\ manualPending' = manualPending - 1
        /\ (manualPending > 0 /\ ManualSendFails) =>
                  /\ messages' = Append(messages, Message("model", NetworkText, FALSE))
                  /\ ~isTyping'
                  /\ manualPending' = manualPending - 1
                  /\ UNCHANGED appVars
                  /\ Mounted']_vars

\* C22: a manual message whose send failed is followed by the placeholder, and
\* the interview goes on
C22_PlaceholderAfterManualMessage ==
    /\ Mounted /\ interviewMode = MANUAL /\ ~isTyping /\ manualPending = 0
    /\ Len(messages) >= 2
    /\ Last(messages) = Message("model", NetworkText, FALSE)
    /\ messages[Len(messages) - 1].role = "user"
    /\ ~messages[Len(messages) - 1].isAiInterviewer

\* a send to the respondent made by the mounted ChatInterface fails: the one of
\* handleManualSend (part_001:124) or the one of a moderator turn (part_001:83)
ChatTurnFails ==
    \/ manualPending > 0 /\ ManualSendFails
    \/ \E i \in 1..Len(modTurns), e \in Errors : ModeratorSendFails(i, e)

\* C23: whenever a chat turn fails during an interview, in Manual or in Auto
\* mode, a placeholder respondent message is appended, so that the interviewer
\* message it belongs to is followed by a respondent message, and the session
\* continues.
C23_FailedTurnLeavesPlaceholder ==
    [][(Mounted /\ (manualPending > 0 \/ modTurns # <<>>) /\ ChatTurnFails) =>
          (/\ Len(messages') = Len(messages) + 1
           /\ Last(messages').role = "model"
           /\ SubSeq(messages', 1, Len(messages)) = messages
           /\ Mounted')]_vars

\* C23: the question of a moderator turn is left without an answer and
\* nothing is outstanding that could still answer it
C23_QuestionLeftUnanswered ==
    /\ Mounted /\ messages # <<>>
    /\ Last(messages).role = "user" /\ Last(messages).isAiInterviewer
    /\ manualPending = 0 /\ modTurns = <<>> /\ ~greetingPending

\* a call that an unmounted ChatInterface was awaiting settles: a send to the
\* respondent, or the moderator call of a turn
LateResult ==
    \/ OrphanSendSettles
    \/ \E text \in ModeratorTexts : OrphanModeratorAnswers(text)
    \/ \E text \in ModeratorTexts : StaleModeratorAnswers(text)
    \/ OrphanModeratorThrows
    \/ StaleModeratorThrows

\* C24: once the stage has left Interview, the late result of a moderator call
\* or of a chat call that was outstanding at that moment changes no Session
\* field: stage, interviewMode, stored transcript and summary stay as they are.
C24_LateResultsChangeNoSessionField ==
    [][(step # INTERVIEW /\ orphanSends + orphanTurns + staleTurns > 0 /\ LateResult) =>
          UNCHANGED <<step, config, clarificationQuestions, persona, sources,
                      discussionGuide, interviewMode, chatSession, chatHistory,
                      summary, error>>]_vars

\* C25: a switch from Auto to Manual takes effect at once: no moderator turn is
\* started in a step that ends in Manual mode, be it the switch itself or the
\* end of a rate-limit cooldown after it; a turn dispatched before the switch
\* is not cancelled, and its results are still appended to the transcript.
C25_SwitchStopsNewTurnsOnly ==
    [][/\ interviewMode' = MANUAL => TurnsIn({"delay"})' <= TurnsIn({"delay"})
       /\ SwitchToManualButton => modTurns' = modTurns
       /\ (Mounted /\ interviewMode = MANUAL /\ modTurns # <<>>) =>
            /\ \A i \in 1..Len(modTurns), text \in ModeratorTexts :
                  (ModeratorAnswers(i, text)
                     /\ getAIInterviewerNextQuestion(text) # Null) =>
                     messages' = Append(messages,
                                        Message("user", Trim(text), TRUE))
            /\ \A i \in 1..Len(modTurns), text \in ReplyTexts :
                  ModeratorSendSucceeds(i, text) =>
                     messages' = Append(messages, Message("model", text, FALSE))
            /\ \A i \in 1..Len(modTurns) :
                  ModeratorCooldownEnds(i) => modTurns' = <<>>]_vars

\* C25: in the first interview of a run the user has switched to Manual while
\* a moderator turn was waiting, and the turn goes on to ask the moderator
C25_TurnOutlivesSwitch ==
    /\ Mounted /\ mounts = 1 /\ interviewMode = MANUAL /\ ~sentinelSeen
    /\ \E i \in 1..Len(modTurns) : modTurns[i].phase = "call"

\* an entry that is empty or made of whitespace only
IsBlankEntry(q) == \A i \in 1..Len(q) : IsSpace(q[i])

\* the entries of guide g up to position i that are not blank
EntriesKept(g, i) == Cardinality({j \in 1..i : ~IsBlankEntry(g[j])})

\* C26: confirmGuide stores the edited guide with every blank entry (empty or
\* whitespace-only) removed and all other entries kept unchanged in their
\* order, and moves from GuideReview to ModeSelection; confirming
\* [q1, empty, whitespace, q2] stores exactly [q1, q2].
C26_ConfirmGuideStripsBlanks ==
    [][(step = GUIDE_REVIEW /\ GuideReviewConfirm) =>
          /\ step' = MODE_SELECTION
          /\ Len(discussionGuide') = EntriesKept(questions, Len(questions))
          /\ \A i \in 1..Len(questions) :
                ~IsBlankEntry(questions[i]) =>
                    discussionGuide'[EntriesKept(questions, i)] = questions[i]
          /\ questions = BlankedGuide =>
                discussionGuide' = << <<"w">>, <<"SP", "w">> >>]_vars

\* C26: the guide with blank entries has been confirmed
C26_BlankedGuideConfirmed ==
    step = MODE_SELECTION /\ discussionGuide = << <<"w">>, <<"SP", "w">> >>

\* C27: from the moment the stage becomes Interview (startInterview stores the
\* channel in the same step) until reset, discussionGuide is unchanged by every
\* operation: manual sends, moderator turns, mode switches, endInterview,
\* summary success or failure, and the results that arrive late.
C27_GuideFixedDuringInterview ==
    [][(chatSession # 0 /\ ~handleReset) => discussionGuide' = discussionGuide]_vars

\* C27: an interview with at least one interviewer message has been ended and
\* summarised, and the guide is the one that was confirmed
C27_GuideKeptToSummary ==
    /\ step = SUMMARY /\ summary # Null
    /\ discussionGuide # <<>>
    /\ \E i \in 1..Len(chatHistory) : chatHistory[i].role = "user"

\* what the steps of the workflow hand on: the configuration and the persona,
\* and with them a guide that is not empty
HasPersona == persona # Null /\ config # Null

HasGuide == HasPersona /\ discussionGuide # <<>>

\* transcript t ends with a message of the user and the respondent's reply to it
EndsWithExchange(t) ==
    /\ Len(t) >= 2
    /\ t[Len(t) - 1].role = "user" /\ ~t[Len(t) - 1].isAiInterviewer
    /\ t[Len(t)].role = "model"

\* C28: the happy path. With every collaborator succeeding and requirement
\* analysis returning no questions, each operation of the sequence
\* submitInitialConfig, confirmProfile, generateGuide, confirmGuide,
\* startInterview(Manual), one manual message, endInterview takes what the
\* previous one has established to the next stage, so that the sequence ends
\* in stage Summary with persona, a non-empty guide, a stored transcript in
\* which the user message is immediately followed by one respondent reply, and
\* a populated summary.
C28_HappyPath ==
    [][/\ (step = SETUP /\ \E input \in SetupInputs : handleInitialSubmit(input)) =>
            (step' = RESEARCHING /\ Awaiting("analyzeRequirements")' /\ config' # Null)
       /\ (config # Null /\ AnalysisAnswersNoQuestion) =>
            (/\ step' = RESEARCHING /\ config' # Null
             /\ Awaiting("generatePersonaProfile")')
       /\ (/\ Awaiting("generatePersonaProfile") /\ config # Null
           /\ \E result \in PersonaResults : PersonaSucceeds(result)) =>
            (step' = PREVIEW /\ HasPersona')
       /\ (HasPersona /\ handleConfirmProfile) => (step' = GUIDE_INPUT /\ HasPersona')
       /\ (HasPersona /\ handleGenerateGuide) =>
            (/\ step' = GUIDE_INPUT /\ HasPersona'
             /\ Awaiting("generateDiscussionGuide")')
       /\ (/\ Awaiting("generateDiscussionGuide") /\ HasPersona
           /\ \E resp \in GuideResponses : resp.ok /\ GuideReturns(resp)) =>
            (/\ step' = GUIDE_REVIEW /\ HasPersona'
             /\ questions' = discussionGuide'
             /\ \E i \in 1..Len(questions') : ~IsBlankEntry(questions'[i]))
       /\ (/\ step = GUIDE_REVIEW /\ HasPersona
           /\ \E i \in 1..Len(questions) : ~IsBlankEntry(questions[i])
           /\ GuideReviewConfirm) =>
            (step' = MODE_SELECTION /\ HasGuide')
       /\ (step = MODE_SELECTION /\ HasGuide /\ startInterview(MANUAL, TRUE)) =>
            (/\ Mounted' /\ interviewMode' = MANUAL /\ HasGuide'
             /\ messages' = <<>> /\ greetingPending')
       /\ (/\ Mounted /\ greetingPending /\ interviewMode = MANUAL /\ HasGuide
           /\ \E text \in ReplyTexts : GreetingSucceeds(text)) =>
            (/\ Mounted' /\ interviewMode' = MANUAL /\ HasGuide'
             /\ Len(messages') = 1 /\ ~isTyping')
       /\ (/\ Mounted /\ interviewMode = MANUAL /\ ~isTyping /\ HasGuide
           /\ \E input \in Texts : Trim(input) # <<>> /\ ManualForm(input)) =>
            (/\ Mounted' /\ HasGuide'
             /\ Len(messages') = Len(messages) + 1
             /\ Last(messages').role = "user" /\ ~Last(messages').isAiInterviewer
             /\ manualPending' = manualPending + 1)
       /\ (/\ Mounted /\ manualPending > 0 /\ HasGuide
           /\ Last(messages).role = "user" /\ ~Last(messages).isAiInterviewer
           /\ \E text \in ReplyTexts : ManualSendSucceeds(text)) =>
            (Mounted' /\ HasGuide' /\ EndsWithExchange(messages'))
       /\ (Mounted /\ HasGuide /\ EndsWithExchange(messages) /\ EndButton) =>
            (/\ step' = RESEARCHING /\ HasGuide'
             /\ chatHistory' = messages
             /\ Awaiting("generateInterviewSummary")')
       /\ (/\ Awaiting("generateInterviewSummary") /\ HasGuide
           /\ EndsWithExchange(chatHistory)
           /\ SummarySucceeds("summary")) =>
            (/\ step' = SUMMARY /\ HasGuide'
             /\ chatHistory' = chatHistory
             /\ summary' = Some("summary"))]_vars

\* C28: the end of the happy path
C28_HappyEnd ==
    /\ step = SUMMARY /\ summary = Some("summary") /\ HasGuide
    /\ clarificationQuestions = <<>> /\ error = Null
    /\ interviewMode = MANUAL /\ mounts = 1 /\ interviewerTurns = 1
    /\ Len(chatHistory) = 3 /\ chatHistory[1].role = "model"
    /\ EndsWithExchange(chatHistory)

RECURSIVE Pow2(_)
Pow2(k) == IF k = 0 THEN 1 ELSE 2 * Pow2(k - 1)

\* C29: runWithRetry(operation, retries, delay) invokes the operation at most
\* retries + 1 times; it retries only after a rate-limit error, and waits
\* delay * 2^k before the (k+1)-th retry; it ends with what its last
\* invocation did, so that when the retries are exhausted the error of the
\* last attempt is thrown to the caller. Its invocations and waits being
\* bounded, the call terminates if each invocation does.
C29_BoundedBackoff ==
    retryResult # Null =>
        LET c == retryCall[1]
            r == retryResult[1]
        IN  /\ r.calls \in 1..(c.retries + 1)
            /\ Len(r.waits) = r.calls - 1
            /\ \A k \in 1..(r.calls - 1) :
                  /\ ~c.operation[k].ok
                  /\ isRateLimit(c.operation[k].error[1])
                  /\ r.waits[k] = c.delay * Pow2(k - 1)
            /\ r.outcome = c.operation[r.calls]
            /\ (r.calls < c.retries + 1 /\ ~r.outcome.ok) =>
                  ~isRateLimit(r.outcome.error[1])

\* C29: a call with the default retries has used them all and thrown
C29_RetriesExhausted ==
    /\ retryResult # Null
    /\ retryCall[1].retries = DefaultRetries
    /\ retryResult[1].calls = DefaultRetries + 1
    /\ ~retryResult[1].outcome.ok
    /\ retryResult[1].waits[DefaultRetries] = DefaultDelay * 16

\* an error that bears no mark of a rate limit
OtherError == Error(0, 0, <<"other">>)

\* C30: runWithRetry never retries on an error that is not a rate-limit error:
\* the invocation that throws it is the last, no wait follows it and it is
\* thrown to the caller; thrown by the first invocation, it reaches the caller
\* after exactly one invocation and with no delay, whatever retries remain.
C30_NoRetryOnOtherErrors ==
    retryResult # Null =>
        LET c == retryCall[1]
            r == retryResult[1]
        IN  /\ \A k \in 1..r.calls :
                  c.operation[k] = Thrown(OtherError) =>
                      /\ r.calls = k
                      /\ Len(r.waits) = k - 1
                      /\ r.outcome = Thrown(OtherError)
            /\ c.operation[1] = Thrown(OtherError) =>
                  (r.calls = 1 /\ r.waits = <<>>)

\* C30: an error that is not a rate-limit error has been thrown at once by a
\* call that had retries left
C30_ThrownAtOnce ==
    /\ retryResult # Null
    /\ retryCall[1].retries = MaxRetries
    /\ retryCall[1].operation[1] = Thrown(OtherError)
    /\ retryResult[1] = [outcome |-> Thrown(OtherError), calls |-> 1, waits |-> <<>>]

\* C31: a manual send is a no-op (no message appended, no request on the
\* channel, awaiting flag unchanged) whenever the input is blank after trimming
\* or the awaiting flag is set; an accepted one leaves the mode Manual, whatever
\* it was. A message of the user is appended to the transcript only by a send
\* that was accepted.
C31_ManualSendGuard ==
    [][Mounted =>
        /\ \A input \in Texts :
              ManualForm(input) =>
                  IF Trim(input) = <<>> \/ isTyping
                  THEN UNCHANGED <<messages, isTyping, manualPending, orphanSends,
                                   modTurns, interviewMode>>
                  ELSE interviewMode' = MANUAL
        /\ (/\ Mounted' /\ Len(messages') = Len(messages) + 1
            /\ Last(messages').role = "user" /\ ~Last(messages').isAiInterviewer) =>
              (/\ ~isTyping /\ isTyping'
               /\ Trim(Last(messages').text) # <<>>
               /\ manualPending' = manualPending + 1
               /\ interviewMode' = MANUAL)]_vars

\* C31: the form is shown while a reply to a manual message is awaited
C31_FormWhileAwaiting ==
    /\ Mounted /\ interviewMode = MANUAL /\ isTyping
    /\ manualPending = 1 /\ interviewerTurns < MaxTurns
    /\ Last(messages).role = "user"

\* C32 (as stated): a successful generateGuide passes through the Researching
\* stage: the stage sequence is GuideInput, Researching, GuideReview.
C32_GuideViaResearching ==
    [][/\ handleGenerateGuide => step' = RESEARCHING
       /\ (step # GUIDE_REVIEW /\ step' = GUIDE_REVIEW) => step = RESEARCHING]_vars

\* C32 (amended): a successful generateGuide does not pass through Researching:
\* the stage stays GuideInput, with the loading flag set, while the guide is
\* generated, and GuideReview is entered from GuideInput when the flag is
\* cleared.
C32_GuideWithoutResearching ==
    [][/\ handleGenerateGuide =>
            (step' = GUIDE_INPUT /\ isLoadingGuide' /\ Awaiting("generateDiscussionGuide")')
       /\ Awaiting("generateDiscussionGuide") => step = GUIDE_INPUT /\ isLoadingGuide
       /\ (step # GUIDE_REVIEW /\ step' = GUIDE_REVIEW) =>
            (step = GUIDE_INPUT /\ isLoadingGuide /\ ~isLoadingGuide')]_vars

\* C32: the guide is being generated
C32_GuideBeingGenerated ==
    step = GUIDE_INPUT /\ isLoadingGuide /\ Awaiting("generateDiscussionGuide")

\* C33: if every collaborator call returns, the Researching stage is always
\* left again: the entry point that set it ends in another stage, whether the
\* call gave a result or failed.
C33_ResearchingEnds == (step = RESEARCHING) ~> (step # RESEARCHING)

\* C33: the summary is awaited a second time, the failure of the first attempt
\* having been caught
C33_ResearchingAfterCaughtFailure ==
    step = RESEARCHING /\ Awaiting("generateInterviewSummary") /\ error = Some(ErrSummary)

\* C34: if every delivery-channel call returns, the awaiting-respondent flag
\* is always cleared again once it is set, in both modes, also when the send
\* issued inside a moderator turn fails.
C34_AwaitingIsCleared == isTyping ~> ~isTyping

\* C35: the moderator status is 'thinking' only while a moderator turn is
\* pending (pacing delay, moderator call or rate-limit cooldown): in Manual mode
\* no state has the status 'thinking' with no turn in flight or scheduled.
C35_ThinkingHasPendingTurn ==
    (aiModeratorStatus = "thinking" /\ interviewMode = MANUAL) =>
        TurnsIn({"delay", "call", "cooldown"}) > 0

\* the opening request of the mounted ChatInterface has failed and nothing has
\* been said since
OpeningFailed == Mounted /\ ~greetingPending /\ messages = <<>>

\* C36: a failed opening request leaves the transcript empty, clears the
\* awaiting flag, appends no placeholder and surfaces no error; in Auto mode
\* the moderator then takes no turn, and nothing is said for as long as the
\* interview stays on screen in Auto mode.
C36_FailedOpeningStalls ==
    [][Mounted =>
        /\ GreetingFails =>
              /\ messages' = <<>> /\ ~isTyping' /\ error' = error
              /\ modTurns' = <<>> /\ aiModeratorStatus' = "idle"
              /\ OpeningFailed'
        /\ (OpeningFailed /\ interviewMode = AUTO /\ Mounted' /\ interviewMode' = AUTO) =>
              /\ OpeningFailed'
              /\ modTurns' = <<>> /\ ~isTyping' /\ aiModeratorStatus' = "idle"
              /\ interviewerTurns' = interviewerTurns]_vars

\* C36: an Auto interview whose opening request failed, with no error shown
C36_StalledAutoInterview ==
    /\ OpeningFailed /\ interviewMode = AUTO /\ ~isTyping
    /\ modTurns = <<>> /\ error = Null

\* the data each stage shows is present
StageData ==
    /\ step = INTERVIEW => (chatSession # 0 /\ persona # Null /\ config # Null)
    /\ step = PREVIEW => persona # Null
    /\ step = CLARIFYING => Len(clarificationQuestions) > 0
    /\ step = SUMMARY => summary # Null

\* C37: stage and data are consistent in every reachable state: Interview has
\* a delivery channel, a persona and a config; Preview has a persona;
\* Clarifying has at least one stored question; Summary has a summary, and the
\* stored transcript is the one passed to the last endInterview.
C37_StageDataConsistent ==
    [][/\ StageData'
       /\ Awaiting("generateInterviewSummary")' =>
             chatHistory' = appCall'[1].messages
       /\ (step # SUMMARY /\ step' = SUMMARY) =>
             /\ Awaiting("generateInterviewSummary")
             /\ chatHistory' = appCall[1].messages
       /\ (step = SUMMARY /\ step' = SUMMARY) => chatHistory' = chatHistory]_vars

\* C37: the summary of an interview that was ended twice, with its transcript
C37_SummaryWithTranscript ==
    /\ step = SUMMARY /\ summary # Null /\ mounts = 2
    /\ chatHistory # <<>> /\ chatSession # 0

\* every interviewer message of a transcript is followed by a respondent message
CompleteTurns(msgs) ==
    \A i \in 1..Len(msgs) :
        msgs[i].role = "user" => (i < Len(msgs) /\ msgs[i + 1].role = "model")

\* C38: the transcript handed to endInterview consists of complete turns, also
\* when the session is ended while a respondent reply is awaited.
C38_EndedTranscriptComplete ==
    Awaiting("generateInterviewSummary") => CompleteTurns(appCall[1].messages)

\* C39: the two layers agree on what a rate-limit error is: an error that
\* runWithRetry treats as a rate-limit error and rethrows after its retries is
\* treated as one by the moderator loop too, which then cools down and retries
\* instead of going idle.
C39_RateLimitTestsAgree ==
    [][(Mounted /\ TurnsIn({"call"}) > 0) =>
        \A i \in 1..Len(modTurns), e \in Errors :
            (ModeratorThrows(i, e) /\ isRateLimit(e)) =>
                (IsRateLimitInLoop(e) /\ TurnsIn({"cooldown"})' > 0)]_vars

\* how many times the n-th supplied file or text is on the list
TimesListed(n) == Cardinality({i \in 1..Len(materials) : materials[i].content = n})

\* C40: adding materials never loses one added before: after any interleaving
\* of file uploads, text additions and removals, the list holds every material
\* that was added and not removed exactly once.
C40_NoMaterialLost == \A n \in added \ removed : TimesListed(n) = 1

====
